---- MODULE Spec2Model ----
(***************************************************************************)
(* Session server of the Stellaris save parser (commands/serve.rs): one    *)
(* save is loaded and parsed once, then request lines read from stdin are  *)
(* answered with JSON lines on stdout until close or end of input.  The    *)
(* one-shot commands (commands/extract.rs, commands/iter.rs) run once and  *)
(* exit; they have a specification of their own, OneShot.                  *)
(*                                                                         *)
(* Text (section names, keys, field names, string values, the raw          *)
(* gamestate bytes) is a sequence of one-byte atoms, so that the raw-text  *)
(* searches can be computed position by position.  Protocol constants      *)
(* (operation names, error names) are plain strings.                       *)
(***************************************************************************)
EXTENDS Integers, Sequences, FiniteSets, TLC

VARIABLES
    pc,            \* "start" | "ready" | "closed" | "ended" | "exited" | "panicked"
    parsed,        \* the ParsedSave held for the session (NoSave before a load)
    line,          \* the last line read from stdin (NoLine before the first)
    out,           \* the lines written to stdout while handling `line` (or by the load)
    nRead,         \* number of lines read from stdin so far
    nReq,          \* number of non-empty lines among them
    nResp,         \* number of responses begun on stdout so far
    stdoutBroken,  \* TRUE once a write to stdout has failed
    exit_code,     \* process exit code, Running while the process runs
    cli,           \* the command line as clap parsed it (Commands)
    touched,       \* what the process has done to the file at cli.path
    stderr         \* what the process has written to stderr (NoStderr if nothing)

vars == <<pc, parsed, line, out, nRead, nReq, nResp, stdoutBroken, exit_code,
          cli, touched, stderr>>

-----------------------------------------------------------------------------
(* Bounds of the model *)

\* number of lines the client sends in one session
MaxLines == 2
\* largest number of entries of the iterated section of a loaded save
MaxEntries == 4

-----------------------------------------------------------------------------
(* Program constants *)

\* a default that leaves iter_section in its per-entry mode
default_batch_size_PerEntry == 2 - 1

SCHEMA_VERSION == 1

\* fn default_batch_size
default_batch_size == 100

\* exit_code while the process has not exited
Running == 0 - 1

\* ErrorKind and its two tables
ErrorKind == {"FileNotFound", "ParseError", "InvalidArgument"}

exit_code_of(kind) ==
    CASE kind = "FileNotFound" -> 1
      [] kind = "ParseError" -> 2
      [] kind = "InvalidArgument" -> 3

error_type(kind) ==
    CASE kind = "FileNotFound" -> "FileNotFound"
      [] kind = "ParseError" -> "ParseError"
      [] kind = "InvalidArgument" -> "InvalidArgument"

-----------------------------------------------------------------------------
(* Sequences *)

Range(s) == {s[i] : i \in 1..Len(s)}

RECURSIVE FlattenRange(_, _, _)
\* ss[lo] \o ... \o ss[hi]
FlattenRange(ss, lo, hi) ==
    IF lo > hi THEN <<>>
    ELSE IF lo = hi THEN ss[lo]
    ELSE FlattenRange(ss, lo, (lo + hi) \div 2)
         \o FlattenRange(ss, (lo + hi) \div 2 + 1, hi)

\* the concatenation of a sequence of sequences
Flatten(ss) == FlattenRange(ss, 1, Len(ss))

-----------------------------------------------------------------------------
(* Text used by the model's saves and requests *)

country == <<"c", "o", "u", "n", "t", "r", "y">>
version == <<"v", "e", "r", "s", "i", "o", "n">>
fleet   == <<"f", "l", "e", "e", "t">>
name    == <<"n", "a", "m", "e">>
flag    == <<"f", "l", "a", "g">>
meta    == <<"m", "e", "t", "a">>
id      == <<"i", "d">>
game    == <<"g", "a", "m", "e">>
stellaris == <<"s", "t", "e", "l", "l", "a", "r", "i", "s">>
schema_version == <<"s", "c", "h", "e", "m", "a", "_", "v", "e", "r", "s", "i", "o", "n">>
tool_version == <<"t", "o", "o", "l", "_", "v", "e", "r", "s", "i", "o", "n">>
\* env!("CARGO_PKG_VERSION")
TOOL_VERSION == <<"0", ".", "1">>
_key    == <<"_", "k", "e", "y">>
_value  == <<"_", "v", "a", "l", "u", "e">>
none    == <<"n", "o", "n", "e">>

Digit(i) == <<CASE i = 0 -> "0" [] i = 1 -> "1" [] i = 2 -> "2" [] i = 3 -> "3"
                [] i = 4 -> "4" [] i = 5 -> "5" [] i = 6 -> "6" [] i = 7 -> "7"
                [] i = 8 -> "8" [] OTHER -> "9">>

IsDigit(c) == c \in {"0", "1", "2", "3", "4", "5", "6", "7", "8", "9"}

DigitValue(c) ==
    CASE c = "0" -> 0 [] c = "1" -> 1 [] c = "2" -> 2 [] c = "3" -> 3 [] c = "4" -> 4
      [] c = "5" -> 5 [] c = "6" -> 6 [] c = "7" -> 7 [] c = "8" -> 8 [] c = "9" -> 9

-----------------------------------------------------------------------------
(* serde_json::Value *)

Null      == [t |-> "null"]
Bool(b)   == [t |-> "bool", b |-> b]
Number(n) == [t |-> "num", n |-> n]
String(s) == [t |-> "str", s |-> s]
Array(a)  == [t |-> "arr", items |-> a]
\* an Object is its entries in iteration order, keys unique
Object(e) == [t |-> "obj", entries |-> e]

Entry(k, v) == [key |-> k, value |-> v]

IsObject(v) == v.t = "obj"

\* Map::get / HashMap::get
contains_key(entries, k) == \E i \in 1..Len(entries) : entries[i].key = k
get(entries, k) ==
    entries[CHOOSE i \in 1..Len(entries) : entries[i].key = k].value

\* Map::insert: a new key is appended, an existing key has its value replaced
insert(entries, k, v) ==
    IF contains_key(entries, k)
    THEN [i \in 1..Len(entries) |->
            IF entries[i].key = k THEN Entry(k, v) ELSE entries[i]]
    ELSE Append(entries, Entry(k, v))

-----------------------------------------------------------------------------
(* The saves a session can load: the parsed trees and the gamestate text   *)
(* they were parsed from, in the game's own layout (one entry per line     *)
(* group, entries of a section indented by one tab).                       *)

Tabs(d) == [i \in 1..d |-> "\t"]

RECURSIVE RenderValue(_, _)
RECURSIVE RenderEntries(_, _)
\* the text of value v when it is written at nesting depth d
RenderValue(v, d) ==
    CASE v.t = "str" ->
            IF v.s = none THEN v.s ELSE <<"\"">> \o v.s \o <<"\"">>
      [] v.t = "num" -> Digit(v.n)
      [] v.t = "bool" -> IF v.b THEN <<"y", "e", "s">> ELSE <<"n", "o">>
      [] v.t = "arr" ->
            <<"{">> \o Flatten([i \in 1..Len(v.items) |->
                                  <<" ">> \o RenderValue(v.items[i], d)])
                    \o <<" ", "}">>
      [] v.t = "obj" ->
            <<"\n">> \o Tabs(d) \o <<"{", "\n">>
                \o RenderEntries(v.entries, d + 1)
                \o Tabs(d) \o <<"}">>
      [] OTHER -> <<>>
RenderEntries(es, d) ==
    Flatten([i \in 1..Len(es) |->
               Tabs(d) \o es[i].key \o <<"=">> \o RenderValue(es[i].value, d)
                       \o <<"\n">>])

\* entry i of the country section: an Object, except entry 1, which is the
\* bare token the game writes for a deleted entry
CountryEntry(i) ==
    IF i = 1 THEN String(none)
    ELSE Object(<<Entry(name, String(<<"c">> \o Digit(i))),
                  Entry(flag, Bool(i = 0))>>)

Gamestate(n) ==
    <<Entry(version, String(<<"v", "1">>)),
      Entry(country, Object([i \in 1..n |-> Entry(Digit(i - 1), CountryEntry(i - 1))])),
      Entry(fleet, Array(<<Object(<<Entry(name, String(<<"f">>))>>), Number(2)>>))>>

-----------------------------------------------------------------------------
(* The format parser (jomini's from_windows1252_slice into a map of Values) *)
(* after the grammar of the format: assignments name = value, a value a    *)
(* quoted string, a bare token or a block; a block of assignments is an    *)
(* Object, a block of values an Array (an empty block is read as an empty  *)
(* Object); a repeated name keeps its last value.                          *)

IsSpace(c) == c \in {" ", "\t", "\n", "\r"}
IsPunct(c) == c \in {"=", "{", "}"}

\* the Windows-1252 bytes >= 0x80 of the model's texts and their characters;
\* a byte below 0x80 is its own character
decode_windows1252(bytes) ==
    [i \in 1..Len(bytes) |->
        CASE bytes[i] = "x80" -> "U+20AC"
          [] bytes[i] = "x92" -> "U+2019"
          [] bytes[i] = "xE9" -> "U+E9"
          [] bytes[i] = "xFF" -> "U+FF"
          [] OTHER -> bytes[i]]

\* the number of backslashes that stand directly before index j
Backslashes(text, j) ==
    LET others == {k \in 1..(j - 1) : text[k] # "\\"}
    IN IF others = {} THEN j - 1
       ELSE j - 1 - CHOOSE k \in others : \A o \in others : o <= k

\* a quote that is not escaped (\" and \\ are the escapes)
IsQuote(text, j) == text[j] = "\"" /\ Backslashes(text, j) % 2 = 0

\* whether index j lies outside every quoted string
Outside(text, j) == Cardinality({k \in 1..(j - 1) : IsQuote(text, k)}) % 2 = 0

\* the text of a quoted string with its escapes resolved
RECURSIVE unescape(_)
unescape(s) ==
    IF s = <<>> THEN <<>>
    ELSE IF Head(s) = "\\" /\ Len(s) > 1 /\ s[2] \in {"\"", "\\"}
         THEN <<s[2]>> \o unescape(SubSeq(s, 3, Len(s)))
    ELSE <<Head(s)>> \o unescape(Tail(s))

IsBare(c) == ~IsSpace(c) /\ ~IsPunct(c) /\ c # "\""

\* the index after the bare token that starts at i
BareEnd(text, i) ==
    LET stops == {j \in i..Len(text) : ~IsBare(text[j])}
    IN IF stops = {} THEN Len(text) + 1
       ELSE CHOOSE j \in stops : \A k \in stops : j <= k

Token(k, s) == [k |-> k, s |-> s]

\* TokenStarts taking a bare token to start only after whitespace, "=" or a
\* brace, not directly after the quote that closes a string
TokenStarts_NeedsSeparator(text) ==
    {j \in 1..Len(text) :
        /\ Outside(text, j)
        /\ \/ IsPunct(text[j])
           \/ text[j] = "\""
           \/ /\ IsBare(text[j])
              /\ j = 1 \/ IsSpace(text[j - 1]) \/ IsPunct(text[j - 1])}

\* the indexes at which a token starts
TokenStarts(text) ==
    {j \in 1..Len(text) :
        /\ Outside(text, j)
        /\ \/ IsPunct(text[j])
           \/ text[j] = "\""
           \/ /\ IsBare(text[j])
              /\ j = 1 \/ ~IsBare(text[j - 1]) \/ ~Outside(text, j - 1)}

\* the token that starts at index j; a string that is not closed, or a
\* quote that is escaped outside a string, is a token of kind "bad"
TokenAt(text, j) ==
    IF IsPunct(text[j]) THEN Token(text[j], <<>>)
    ELSE IF IsBare(text[j]) THEN Token("bare", SubSeq(text, j, BareEnd(text, j) - 1))
    ELSE LET closers == {k \in (j + 1)..Len(text) : IsQuote(text, k)}
         IN IF ~IsQuote(text, j) \/ closers = {} THEN Token("bad", <<>>)
            ELSE Token("quoted",
                       SubSeq(text, j + 1,
                              (CHOOSE k \in closers : \A c \in closers : k <= c) - 1))

\* the tokens of text in source order
tokenize(text) ==
    LET starts == TokenStarts(text)
    IN [n \in 1..Cardinality(starts) |->
          TokenAt(text, CHOOSE j \in starts :
                            Cardinality({k \in starts : k < j}) = n - 1)]

RECURSIVE NumberOf(_)
NumberOf(ds) ==
    IF Len(ds) = 1 THEN DigitValue(ds[1])
    ELSE NumberOf(SubSeq(ds, 1, Len(ds) - 1)) * 10 + DigitValue(ds[Len(ds)])

\* the Value of a scalar token
Scalar(tok) ==
    IF tok.k = "quoted" THEN String(decode_windows1252(unescape(tok.s)))
    ELSE IF tok.s = <<"y", "e", "s">> THEN Bool(TRUE)
    ELSE IF tok.s = <<"n", "o">> THEN Bool(FALSE)
    ELSE IF \A i \in 1..Len(tok.s) : IsDigit(tok.s[i]) THEN Number(NumberOf(tok.s))
    ELSE String(decode_windows1252(tok.s))

IsScalar(tok) == tok.k \in {"quoted", "bare"}

ParseFailed == [ok |-> FALSE, value |-> Null, next |-> 0]
ParseOk(v, next) == [ok |-> TRUE, value |-> v, next |-> next]

RECURSIVE parse_value(_, _)
RECURSIVE parse_entries(_, _, _)
RECURSIVE parse_items(_, _, _)
\* the value that starts at token i, and the index of the token after it
parse_value(toks, i) ==
    IF i > Len(toks) THEN ParseFailed
    ELSE IF IsScalar(toks[i]) THEN ParseOk(Scalar(toks[i]), i + 1)
    ELSE IF toks[i].k # "{" THEN ParseFailed
    ELSE IF i + 1 <= Len(toks) /\ toks[i + 1].k = "}"
         THEN ParseOk(Object(<<>>), i + 2)
    ELSE IF i + 2 <= Len(toks) /\ toks[i + 2].k = "="
         THEN LET r == parse_entries(toks, i + 1, <<>>)
              IN IF r.ok /\ r.next <= Len(toks) /\ toks[r.next].k = "}"
                 THEN ParseOk(Object(r.value), r.next + 1)
                 ELSE ParseFailed
    ELSE LET r == parse_items(toks, i + 1, <<>>)
         IN IF r.ok /\ r.next <= Len(toks) /\ toks[r.next].k = "}"
            THEN ParseOk(Array(r.value), r.next + 1)
            ELSE ParseFailed
\* the assignments from token i up to a closing brace or the end of input,
\* collected into a map: a repeated name has its value replaced
parse_entries(toks, i, acc) ==
    IF i > Len(toks) \/ toks[i].k = "}" THEN ParseOk(acc, i)
    ELSE IF ~IsScalar(toks[i]) \/ i + 1 > Len(toks) \/ toks[i + 1].k # "="
         THEN ParseFailed
    ELSE LET v == parse_value(toks, i + 2)
         IN IF ~v.ok THEN ParseFailed
            ELSE parse_entries(toks, v.next,
                               insert(acc,
                                      decode_windows1252(IF toks[i].k = "quoted"
                                                         THEN unescape(toks[i].s)
                                                         ELSE toks[i].s),
                                      v.value))
parse_items(toks, i, acc) ==
    IF i > Len(toks) \/ toks[i].k = "}" THEN ParseOk(acc, i)
    ELSE LET v == parse_value(toks, i)
         IN IF ~v.ok THEN ParseFailed
            ELSE parse_items(toks, v.next, Append(acc, v.value))

\* parse(bytes) -> Object: the top-level map, or a failure
parse(bytes) ==
    LET toks == tokenize(bytes)
        r == parse_entries(toks, 1, <<>>)
    IN IF r.ok /\ r.next = Len(toks) + 1
       THEN [ok |-> TRUE, map |-> r.value]
       ELSE [ok |-> FALSE, map |-> <<>>]

Meta == <<Entry(name, String(<<"e", "m", "p">>))>>

NoMeta == [some |-> FALSE]
SomeMeta(m) == [some |-> TRUE, map |-> m]

\* ParsedSave { gamestate, gamestate_bytes, meta }
ParsedSave(n, withMeta) ==
    [gamestate |-> Gamestate(n),
     gamestate_bytes |-> RenderEntries(Gamestate(n), 0),
     meta |-> IF withMeta THEN SomeMeta(Meta) ELSE NoMeta]

NoSave == [gamestate |-> <<>>, gamestate_bytes |-> <<>>, meta |-> NoMeta]

\* a save whose gamestate is {a:{x:1}, b:{x:2, y:{x:3}}}: one name at
\* several depths
NestedGamestate ==
    <<Entry(<<"a">>, Object(<<Entry(<<"x">>, Number(1))>>)),
      Entry(<<"b">>, Object(<<Entry(<<"x">>, Number(2)),
                              Entry(<<"y">>, Object(<<Entry(<<"x">>, Number(3))>>))>>))>>

NestedSave ==
    [gamestate |-> NestedGamestate,
     gamestate_bytes |-> RenderEntries(NestedGamestate, 0),
     meta |-> NoMeta]

\* a save whose text assigns a name more than once in one block, holds
\* bytes >= 0x80, and has an entry with fields called id and _key
DuplicatesText ==
    RenderEntries(
        <<Entry(version, String(<<"v", "1">>)),
          Entry(country, Object(
            <<Entry(Digit(0), Object(<<Entry(id, String(<<"7">>)),
                                       Entry(_key, String(<<"k">>)),
                                       Entry(name, String(<<"a">>)),
                                       Entry(name, String(<<"xE9">>)),
                                       Entry(name, String(<<"c">>))>>)),
              Entry(Digit(9), Object(<<Entry(name,
                                             String(<<"xE9", "x92", "xFF">>))>>))>>))>>, 0)

DuplicatesSave ==
    [gamestate |-> parse(DuplicatesText).map,
     gamestate_bytes |-> DuplicatesText,
     meta |-> NoMeta]

\* a save whose text writes entry headers in the three forms the raw-text
\* lookup knows: `key={` and `key =` in the country section, `key=`, newline,
\* tab, `{` in the section after it; entry 9 is in the later section only,
\* and a string of the later entry 0 holds a closing brace.  Two keys of the
\* country section are "a\"b" (a, double quote, b) and c\n (c, backslash, n)
MixedLayoutText ==
    RenderEntries(<<Entry(version, String(<<"v", "1">>))>>, 0)
    \o country \o <<"=", "\n", "{", "\n">>
    \o <<"\t", "0", "=", "{", " ">> \o name \o <<"=", "\"", "a", "\"", " ">>
                                    \o name \o <<"=", "\"", "b", "\"", " ", "}", "\n">>
    \o <<"\t", "2", " ", "=", " ", "{", " ">>
                                    \o name \o <<"=", "\"", "s", "\"", " ", "}", "\n">>
    \o <<"\t", "\"", "a", "\\", "\"", "b", "\"", "=", "{", " ">>
                                    \o name \o <<"=", "\"", "q", "\"", " ", "}", "\n">>
    \o <<"\t", "c", "\\", "n", "=", "{", " ">>
                                    \o name \o <<"=", "\"", "r", "\"", " ", "}", "\n">>
    \o <<"}", "\n">>
    \o fleet \o <<"=", "\n", "{", "\n">>
    \o RenderEntries(<<Entry(Digit(0), Object(<<Entry(name, String(<<"f">>)),
                                                 Entry(name, String(<<"e">>)),
                                                 Entry(name, String(<<"g", "}", "h">>))>>)),
                       Entry(Digit(9), Object(<<Entry(name, String(<<"g">>))>>))>>, 1)
    \o <<"\t", "2", "=", "{", " ">>
                                    \o name \o <<"=", "\"", "t", "\"", " ", "}", "\n">>
    \o <<"}", "\n">>

MixedLayoutSave ==
    [gamestate |-> parse(MixedLayoutText).map,
     gamestate_bytes |-> MixedLayoutText,
     meta |-> NoMeta]

Saves ==
    {ParsedSave(n, m) : n \in 0..MaxEntries, m \in BOOLEAN}
    \cup {NestedSave, DuplicatesSave, MixedLayoutSave}

-----------------------------------------------------------------------------
(* Query operations on the parsed trees *)

MetadataEntries ==
    <<Entry(schema_version, Number(SCHEMA_VERSION)),
      Entry(tool_version, String(TOOL_VERSION)),
      Entry(game, String(stellaris))>>

RECURSIVE ExtractInto(_, _, _)
\* the loop of ParsedSave::extract_sections over the requested names
ExtractInto(result, save, sections) ==
    IF sections = <<>> THEN result
    ELSE LET section == Head(sections)
             next == IF section = meta
                     THEN IF save.meta.some
                          THEN insert(result, meta, Object(save.meta.map))
                          ELSE result
                     ELSE IF contains_key(save.gamestate, section)
                          THEN insert(result, section, get(save.gamestate, section))
                          ELSE result
         IN ExtractInto(next, save, Tail(sections))

\* extract_sections answering null for a requested name it did not find
extract_sections_NullForMissing(save, sections) ==
    LET result == ExtractInto(MetadataEntries, save, sections)
        Missing(section) == ~contains_key(result, section)
        missing == SelectSeq(sections, Missing)
    IN Object(result \o [i \in 1..Len(missing) |-> Entry(missing[i], Null)])

extract_sections(save, sections) ==
    Object(ExtractInto(MetadataEntries, save, sections))

\* if let Some(Value::Object(map)) = parsed.gamestate.get(&section)
SectionIsObject(save, section) ==
    /\ contains_key(save.gamestate, section)
    /\ IsObject(get(save.gamestate, section))

SectionMap(save, section) == get(save.gamestate, section).entries

\* get_entry reporting found for every key of a section that is an Object
get_entry_FoundForSection(save, section, key) ==
    IF SectionIsObject(save, section)
    THEN [entry |-> IF contains_key(SectionMap(save, section), key)
                    THEN get(SectionMap(save, section), key) ELSE Null,
          found |-> TRUE]
    ELSE [entry |-> Null, found |-> FALSE]

\* SingleEntry { entry, found } of handle_get_entry
get_entry(save, section, key) ==
    IF SectionIsObject(save, section) /\ contains_key(SectionMap(save, section), key)
    THEN [entry |-> get(SectionMap(save, section), key), found |-> TRUE]
    ELSE [entry |-> Null, found |-> FALSE]

RECURSIVE ProjectInto(_, _, _)
\* copies the fields of field_list the Object has into `obj`
ProjectInto(obj, entry_obj, field_list) ==
    IF field_list = <<>> THEN obj
    ELSE ProjectInto(IF contains_key(entry_obj, Head(field_list))
                     THEN insert(obj, Head(field_list), get(entry_obj, Head(field_list)))
                     ELSE obj,
                     entry_obj, Tail(field_list))

NoFields == [some |-> FALSE]
SomeFields(f) == [some |-> TRUE, list |-> f]

\* one element of the entries list of handle_get_entries
Projected(key, entry_value, fields) ==
    IF fields.some /\ IsObject(entry_value)
    THEN Object(ProjectInto(<<Entry(_key, String(key))>>,
                            entry_value.entries, fields.list))
    ELSE Object(<<Entry(_key, String(key)), Entry(_value, entry_value)>>)

\* get_entries walking the section and keeping the entries that were asked for
get_entries_SectionOrder(save, section, keys, fields) ==
    IF SectionIsObject(save, section)
    THEN LET map == SectionMap(save, section)
         IN Flatten([i \in 1..Len(map) |->
                IF \E j \in 1..Len(keys) : keys[j] = map[i].key
                THEN <<Projected(map[i].key, map[i].value, fields)>>
                ELSE <<>>])
    ELSE <<>>

get_entries(save, section, keys, fields) ==
    IF SectionIsObject(save, section)
    THEN LET map == SectionMap(save, section)
         IN Flatten([i \in 1..Len(keys) |->
                IF contains_key(map, keys[i])
                THEN <<Projected(keys[i], get(map, keys[i]), fields)>>
                ELSE <<>>])
    ELSE <<>>

RECURSIVE Sum(_)
Sum(ns) == IF ns = <<>> THEN 0 ELSE Head(ns) + Sum(Tail(ns))

\* traverse() counting the entries of the value itself and not descending
traverse_count_Shallow(value, k) ==
    IF value.t = "obj"
    THEN Cardinality({i \in 1..Len(value.entries) : value.entries[i].key = k})
    ELSE 0

RECURSIVE traverse_count(_, _)
\* how many times traverse() of handle_count_keys increments the counter of k
traverse_count(value, k) ==
    CASE value.t = "obj" ->
            Sum([i \in 1..Len(value.entries) |->
                   (IF value.entries[i].key = k THEN 1 ELSE 0)
                   + traverse_count(value.entries[i].value, k)])
      [] value.t = "arr" ->
            Sum([i \in 1..Len(value.items) |-> traverse_count(value.items[i], k)])
      [] OTHER -> 0

count_keys(save, keys) ==
    [k \in Range(keys) |->
        Sum([i \in 1..Len(save.gamestate) |->
               traverse_count(save.gamestate[i].value, k)])]

\* the text a scalar is compared as in handle_contains_kv; <<>> with ok FALSE
\* for Null, Array and Object
ScalarText(v) ==
    CASE v.t = "str" -> [ok |-> TRUE, s |-> v.s]
      [] v.t = "bool" -> [ok |-> TRUE, s |-> IF v.b THEN <<"y", "e", "s">> ELSE <<"n", "o">>]
      [] v.t = "num" -> [ok |-> TRUE, s |-> Digit(v.n)]
      [] OTHER -> [ok |-> FALSE, s |-> <<>>]

RECURSIVE traverse_kv(_, _, _)
\* whether traverse() of handle_contains_kv sets the match of (k, target)
traverse_kv(value, k, target) ==
    CASE value.t = "obj" ->
            \E i \in 1..Len(value.entries) :
                \/ /\ value.entries[i].key = k
                   /\ ScalarText(value.entries[i].value).ok
                   /\ ScalarText(value.entries[i].value).s = target
                \/ traverse_kv(value.entries[i].value, k, target)
      [] value.t = "arr" ->
            \E i \in 1..Len(value.items) : traverse_kv(value.items[i], k, target)
      [] OTHER -> FALSE

\* format!("{}={}", k, v)
KvKey(pair) == pair[1] \o <<"=">> \o pair[2]

\* The matches table is keyed by the formatted "k=v" text: a hit for (k, vs)
\* sets the key format(k, vs), whichever requested pair spelt it.
contains_kv(save, pairs) ==
    [m \in {KvKey(pairs[i]) : i \in 1..Len(pairs)} |->
        \E i \in 1..Len(pairs) :
            /\ KvKey(pairs[i]) = m
            /\ \E j \in 1..Len(save.gamestate) :
                   traverse_kv(save.gamestate[j].value, pairs[i][1], pairs[i][2])]

\* one summary Object per entry of the "country" section
get_country_summaries(save, fields) ==
    IF SectionIsObject(save, country)
    THEN LET map == SectionMap(save, country)
         IN [i \in 1..Len(map) |->
                Object(IF IsObject(map[i].value)
                       THEN ProjectInto(<<Entry(id, String(map[i].key))>>,
                                        map[i].value.entries, fields)
                       ELSE <<Entry(id, String(map[i].key))>>)]
    ELSE <<>>

-----------------------------------------------------------------------------
(* Raw-text extraction on the gamestate bytes.  A Rust str is its UTF-8     *)
(* bytes: offsets count bytes from 0, chars() counts characters, and a     *)
(* slice that does not fall on a character boundary panics.                *)

\* bytes >= 0x80 that occur in the model's texts, and the three bytes of U+FFFD
HighBytes == {"x80", "x92", "xE9", "xFF"}
ReplacementChar == <<"xEF", "xBF", "xBD">>
IsContinuation(b) == b \in {"xBF", "xBD"}

\* String::from_utf8_lossy: a byte that is no valid UTF-8 becomes U+FFFD
from_utf8_lossy(bytes) ==
    Flatten([i \in 1..Len(bytes) |->
               IF bytes[i] \in HighBytes THEN ReplacementChar ELSE <<bytes[i]>>])

is_char_boundary(s, i) ==
    \/ i = 0
    \/ i = Len(s)
    \/ i < Len(s) /\ ~IsContinuation(s[i + 1])

\* s[from..]
SliceFrom(s, from) == SubSeq(s, from + 1, Len(s))
\* s[..to]
SliceTo(s, to) == SubSeq(s, 1, to)

MatchAt(hay, pat, i) ==
    /\ i + Len(pat) <= Len(hay)
    /\ \A j \in 1..Len(pat) : hay[i + j] = pat[j]

NotFound == [some |-> FALSE, pos |-> 0]
Found(p) == [some |-> TRUE, pos |-> p]

\* str::find: the byte offset of the first occurrence of pat in hay
find(hay, pat) ==
    LET hits == {i \in 0..Len(hay) : MatchAt(hay, pat, i)}
    IN IF hits = {} THEN NotFound
       ELSE Found(CHOOSE i \in hits : \A h \in hits : i <= h)

\* the offset just after the first '{' that follows "\n" + section + "="
section_content_start(content, section) ==
    LET section_start == find(content, <<"\n">> \o section \o <<"=">>)
    IN IF ~section_start.some THEN NotFound
       ELSE LET brace == find(SliceFrom(content, section_start.pos), <<"{">>)
            IN IF brace.some THEN Found(section_start.pos + brace.pos + 1)
               ELSE NotFound

entry_patterns(key) ==
    << <<"\n", "\t">> \o key \o <<"=", "\n", "\t", "{">>,
       <<"\n", "\t">> \o key \o <<"=", "{">>,
       <<"\n", "\t">> \o key \o <<" ", "=">> >>

\* entry_start taking the occurrence that comes first in the text, whichever
\* pattern it is of
entry_start_Earliest(content, key, start) ==
    LET rest == SliceFrom(content, start)
        pats == entry_patterns(key)
        hits == {find(rest, pats[i]).pos : i \in {j \in 1..3 : find(rest, pats[j]).some}}
    IN IF hits = {} THEN NotFound
       ELSE Found(start + CHOOSE h \in hits : \A g \in hits : h <= g)

\* the first pattern, in array order, that occurs after the section's brace
entry_start(content, key, start) ==
    LET rest == SliceFrom(content, start)
        pats == entry_patterns(key)
        hit(i) == find(rest, pats[i])
    IN IF hit(1).some THEN Found(start + hit(1).pos)
       ELSE IF hit(2).some THEN Found(start + hit(2).pos)
       ELSE IF hit(3).some THEN Found(start + hit(3).pos)
       ELSE NotFound

\* the byte offsets at which the characters of s start, and the index
\* chars().enumerate() gives the character at offset b
CharStarts(s) == {b \in 0..(Len(s) - 1) : ~IsContinuation(s[b + 1])}
CharIndex(s, b) == Cardinality({c \in CharStarts(s) : c < b})

\* brace_count when the loop reaches offset b, and whether in_entry is set
brace_count(s, b) ==
    Cardinality({c \in 0..(b - 1) : s[c + 1] = "{"})
    - Cardinality({c \in 0..(b - 1) : s[c + 1] = "}"})
in_entry(s, b) == \E c \in 0..(b - 1) : s[c + 1] = "{"

\* the loop over entry_content.chars().enumerate(): entry_end is i + 1 for
\* the first '}' that brings brace_count to 0 once in_entry is set, where i
\* is the index of that character; entry_content.len() when there is none
entry_end(entry_content) ==
    LET closing == {b \in CharStarts(entry_content) :
                       /\ entry_content[b + 1] = "}"
                       /\ in_entry(entry_content, b)
                       /\ brace_count(entry_content, b) - 1 = 0}
    IN IF closing = {} THEN Len(entry_content)
       ELSE CharIndex(entry_content, CHOOSE b \in closing : \A c \in closing : b <= c) + 1

\* field_values leaving the loop after the first value
field_values_FirstOnly(block, field_pattern) ==
    LET field_start == find(block, field_pattern)
    IN IF ~field_start.some THEN <<>>
       ELSE LET value_start == field_start.pos + Len(field_pattern)
                value_end == find(SliceFrom(block, value_start), <<"\"">>)
            IN IF ~value_end.some THEN <<>>
               ELSE <<SubSeq(block, value_start + 1, value_start + value_end.pos)>>

RECURSIVE field_values(_, _)
\* the while loop collecting field="value" occurrences of entry_block
field_values(block, field_pattern) ==
    LET field_start == find(block, field_pattern)
    IN IF ~field_start.some THEN <<>>
       ELSE LET value_start == field_start.pos + Len(field_pattern)
                value_end == find(SliceFrom(block, value_start), <<"\"">>)
            IN IF ~value_end.some THEN <<>>
               ELSE <<SubSeq(block, value_start + 1, value_start + value_end.pos)>>
                    \o field_values(SliceFrom(block, value_start + value_end.pos + 1),
                                    field_pattern)

NoOffset == [some |-> FALSE, pos |-> 0]

\* (values, found, section offset to cache); panic is TRUE when the slice
\* entry_content[..entry_end] is not on a character boundary
extract_duplicate_values(content, section, key, field, cached_section_start) ==
    LET scs == IF cached_section_start.some THEN cached_section_start
               ELSE section_content_start(content, section)
    IN IF ~scs.some
       THEN [values |-> <<>>, found |-> FALSE, offset |-> NoOffset, panic |-> FALSE]
       ELSE LET start == entry_start(content, key, scs.pos)
            IN IF ~start.some
               THEN [values |-> <<>>, found |-> FALSE, offset |-> scs, panic |-> FALSE]
               ELSE LET entry_content == SliceFrom(content, start.pos)
                        e == entry_end(entry_content)
                    IN IF ~is_char_boundary(entry_content, e)
                       THEN [values |-> <<>>, found |-> TRUE, offset |-> scs,
                             panic |-> TRUE]
                       ELSE [values |-> field_values(SliceTo(entry_content, e),
                                                     field \o <<"=", "\"">>),
                             found |-> TRUE, offset |-> scs, panic |-> FALSE]

\* (text, found)
extract_entry_text(content, section, key, cached_section_start) ==
    LET scs == IF cached_section_start.some THEN cached_section_start
               ELSE section_content_start(content, section)
    IN IF ~scs.some
       THEN [text |-> <<>>, found |-> FALSE, panic |-> FALSE]
       ELSE LET start == entry_start(content, key, scs.pos)
            IN IF ~start.some
               THEN [text |-> <<>>, found |-> FALSE, panic |-> FALSE]
               ELSE LET entry_content == SliceFrom(content, start.pos)
                        e == entry_end(entry_content)
                    IN IF ~is_char_boundary(entry_content, e)
                       THEN [text |-> <<>>, found |-> TRUE, panic |-> TRUE]
                       ELSE [text |-> SliceTo(entry_content, e), found |-> TRUE,
                             panic |-> FALSE]

-----------------------------------------------------------------------------
(* Token search: AhoCorasick::new(&tokens) and find_iter, which reports    *)
(* non-overlapping matches in the order their ends are reached.            *)

\* the matches (pattern index, start, end) that start at or after `at`
TokenHits(hay, tokens, at) ==
    {<<h[1], h[2], h[2] + Len(tokens[h[1]])>> :
        h \in {g \in (1..Len(tokens)) \X (at..Len(hay)) :
                  MatchAt(hay, tokens[g[1]], g[2])}}

\* the match find_iter reports next: the earliest end, then the longest
\* pattern ending there, then the lowest pattern index
NextMatch(hits) ==
    CHOOSE h \in hits : \A g \in hits :
        \/ h[3] < g[3]
        \/ h[3] = g[3] /\ h[2] < g[2]
        \/ h[3] = g[3] /\ h[2] = g[2] /\ h[1] <= g[1]

RECURSIVE find_iter(_, _, _)
\* the pattern indexes of the matches find_iter yields from offset `at`
find_iter(hay, tokens, at) ==
    LET hits == TokenHits(hay, tokens, at)
    IN IF at > Len(hay) \/ hits = {} THEN {}
       ELSE LET m == NextMatch(hits)
            IN {m[1]} \cup find_iter(hay, tokens, IF m[3] = m[2] THEN m[3] + 1 ELSE m[3])

contains_tokens(gamestate_bytes, tokens) ==
    LET reported == IF tokens = <<>> THEN {} ELSE find_iter(gamestate_bytes, tokens, 0)
    IN [t \in Range(tokens) |-> \E i \in reported : tokens[i] = t]

-----------------------------------------------------------------------------
(* Response lines.  A line is the JSON object that is serialized: a record *)
(* with exactly the fields that are written.                               *)

\* ErrorResponse::new (line and col are None and are skipped)
ErrorResponse(error, message, code) ==
    [ok |-> FALSE, error |-> error, message |-> message, exit_code |-> code,
     schema_version |-> SCHEMA_VERSION, tool_version |-> TOOL_VERSION,
     game |-> stellaris]

\* SuccessResponse { ok: true, data } with the variant's fields flattened in
Extract(data)               == [ok |-> TRUE, data |-> data]
SingleEntry(r)              == [ok |-> TRUE, entry |-> r.entry, found |-> r.found]
MultipleEntries(entries)    == [ok |-> TRUE, entries |-> entries]
StreamHeader(section)       == [ok |-> TRUE, stream |-> TRUE, op |-> "iter_section",
                                section |-> section]
StreamDone(section)         == [ok |-> TRUE, done |-> TRUE, op |-> "iter_section",
                                section |-> section]
Closed                      == [ok |-> TRUE, closed |-> TRUE]
KeyCounts(counts)           == [ok |-> TRUE, counts |-> counts]
TokenMatches(matches)       == [ok |-> TRUE, matches |-> matches]
KvMatches(matches)          == [ok |-> TRUE, matches |-> matches]
CountrySummaries(countries) == [ok |-> TRUE, countries |-> countries]
DuplicateValues(r)          == [ok |-> TRUE, values |-> r.values, found |-> r.found]
EntryText(r)                == [ok |-> TRUE, text |-> r.text, found |-> r.found]
MultiResults(results)       == [ok |-> TRUE, results |-> results]

\* the line write_stream_entry formats for one entry: the key is written
\* between two double quotes as it is (`"key":"{}"`), the value by serde_json
write_stream_entry(key, value) == [ok |-> TRUE, entry |-> Entry(key, value)]
\* the line write_stream_batch formats for a non-empty batch, each key
\* written as it is
write_stream_batch(batch) == [ok |-> TRUE, entries |-> batch]

RECURSIVE batch_loop_FlushLate(_, _, _)
\* batch_loop writing a batch only once it holds more than batch_size entries
batch_loop_FlushLate(rest, batch, batch_size) ==
    IF rest = <<>>
    THEN IF batch # <<>> THEN <<write_stream_batch(batch)>> ELSE <<>>
    ELSE LET pushed == Append(batch, Head(rest))
         IN IF Len(pushed) > batch_size
            THEN <<write_stream_batch(pushed)>>
                 \o batch_loop_FlushLate(Tail(rest), <<>>, batch_size)
            ELSE batch_loop_FlushLate(Tail(rest), pushed, batch_size)

RECURSIVE batch_loop(_, _, _)
\* the batched branch of handle_iter_section: `rest` are the entries still
\* to visit, `batch` the entries collected since the last write
batch_loop(rest, batch, batch_size) ==
    IF rest = <<>>
    THEN IF batch # <<>> THEN <<write_stream_batch(batch)>> ELSE <<>>
    ELSE LET pushed == Append(batch, Head(rest))
         IN IF Len(pushed) >= batch_size
            THEN <<write_stream_batch(pushed)>> \o batch_loop(Tail(rest), <<>>, batch_size)
            ELSE batch_loop(Tail(rest), pushed, batch_size)

\* handle_iter_section returning after the header when the section is
\* absent or no Object
handle_iter_section_NoDone(save, section, batch_size) ==
    IF SectionIsObject(save, section)
    THEN <<StreamHeader(section)>>
         \o (LET map == SectionMap(save, section)
             IN IF batch_size <= 1
                THEN [i \in 1..Len(map) |-> write_stream_entry(map[i].key, map[i].value)]
                ELSE batch_loop(map, <<>>, batch_size))
         \o <<StreamDone(section)>>
    ELSE <<StreamHeader(section)>>

\* handle_iter_section taking the per-entry branch for batch_size 0 only
handle_iter_section_BatchOfOne(save, section, batch_size) ==
    <<StreamHeader(section)>>
    \o (IF SectionIsObject(save, section)
        THEN LET map == SectionMap(save, section)
             IN IF batch_size < 1
                THEN [i \in 1..Len(map) |-> write_stream_entry(map[i].key, map[i].value)]
                ELSE batch_loop(map, <<>>, batch_size)
        ELSE <<>>)
    \o <<StreamDone(section)>>

\* every line handle_iter_section writes when no write fails
handle_iter_section(save, section, batch_size) ==
    <<StreamHeader(section)>>
    \o (IF SectionIsObject(save, section)
        THEN LET map == SectionMap(save, section)
             IN IF batch_size <= 1
                THEN [i \in 1..Len(map) |-> write_stream_entry(map[i].key, map[i].value)]
                ELSE batch_loop(map, <<>>, batch_size)
        ELSE <<>>)
    \o <<StreamDone(section)>>

\* handle_get_duplicate_values: the standalone scan, no cached offset
handle_get_duplicate_values(gamestate_bytes, section, key, field) ==
    extract_duplicate_values(from_utf8_lossy(gamestate_bytes), section, key, field,
                             NoOffset)

\* handle_get_entry_text setting found as soon as the section is located
handle_get_entry_text_FoundEarly(gamestate_bytes, section, key) ==
    LET content == from_utf8_lossy(gamestate_bytes)
    IN [extract_entry_text(content, section, key, NoOffset)
            EXCEPT !.found = section_content_start(content, section).some]

handle_get_entry_text(gamestate_bytes, section, key) ==
    extract_entry_text(from_utf8_lossy(gamestate_bytes), section, key, NoOffset)

\* CacheGet handing out whatever offset was cached first, whichever section
\* it belongs to
CacheGet_AnySection(cache, section) ==
    IF cache # <<>> THEN Found(cache[1].value) ELSE NoOffset

\* section_offset_cache.get(&section).copied()
CacheGet(cache, section) ==
    IF contains_key(cache, section) THEN Found(get(cache, section)) ELSE NoOffset

RECURSIVE multi_loop(_, _, _)
\* handle_multi_op returning the results last to first
handle_multi_op_Reversed(save, ops) ==
    LET r == multi_loop(save, ops, <<>>)
    IN [results |-> [i \in 1..Len(r.results) |-> r.results[Len(r.results) + 1 - i]],
        panic |-> r.panic, cache |-> r.cache]

\* the loop of handle_multi_op: the results pushed for `ops`, starting with
\* section_offset_cache = cache, and the cache when the loop ends; panic is
\* TRUE when a sub-operation panics
multi_loop(save, ops, cache) ==
    IF ops = <<>> THEN [results |-> <<>>, panic |-> FALSE, cache |-> cache]
    ELSE LET op == Head(ops)
             content == from_utf8_lossy(save.gamestate_bytes)
             dup == extract_duplicate_values(content, op.section, op.key, op.field,
                                             CacheGet(cache, op.section))
             txt == extract_entry_text(content, op.section, op.key, NoOffset)
             result ==
                CASE op.op = "extract_sections" ->
                        [data |-> extract_sections(save, op.sections)]
                  [] op.op = "get_entry" -> get_entry(save, op.section, op.key)
                  [] op.op = "get_entries" ->
                        [entries |-> get_entries(save, op.section, op.keys, op.fields)]
                  [] op.op = "count_keys" -> [counts |-> count_keys(save, op.keys)]
                  [] op.op = "contains_tokens" ->
                        [matches |-> contains_tokens(save.gamestate_bytes, op.tokens)]
                  [] op.op = "contains_kv" -> [matches |-> contains_kv(save, op.pairs)]
                  [] op.op = "get_country_summaries" ->
                        [countries |-> get_country_summaries(save, op.fields)]
                  [] op.op = "get_duplicate_values" ->
                        [values |-> dup.values, found |-> dup.found]
                  [] op.op = "get_entry_text" -> [text |-> txt.text, found |-> txt.found]
             panics == \/ op.op = "get_duplicate_values" /\ dup.panic
                       \/ op.op = "get_entry_text" /\ txt.panic
             cache2 == IF op.op = "get_duplicate_values" /\ dup.offset.some
                       THEN insert(cache, op.section, dup.offset.pos)
                       ELSE cache
         IN IF panics THEN [results |-> <<>>, panic |-> TRUE, cache |-> cache]
            ELSE LET later == multi_loop(save, Tail(ops), cache2)
                 IN [results |-> <<result>> \o later.results, panic |-> later.panic,
                     cache |-> later.cache]

\* handle_multi_op leaving the found flag out of the get_entry results
handle_multi_op_EntryOnly(save, ops) ==
    LET r == multi_loop(save, ops, <<>>)
    IN [r EXCEPT !.results =
            [i \in 1..Len(r.results) |->
                IF "entry" \in DOMAIN r.results[i]
                THEN [entry |-> r.results[i].entry]
                ELSE r.results[i]]]

\* handle_multi_op: the cache starts empty for every request
handle_multi_op(save, ops) == multi_loop(save, ops, <<>>)

-----------------------------------------------------------------------------
(* Request lines and their deserialization (the derived Deserialize of     *)
(* Request and MultiOp, tagged by "op").  A JSON object is a record of the *)
(* fields the client sent.                                                 *)

NoLine      == [text |-> "none"]
EmptyLine   == [text |-> "empty"]
GarbageLine == [text |-> "garbage"]
JsonLine(obj) == [text |-> "json", obj |-> obj]

\* enum MultiOp
MultiOp ==
    {"extract_sections", "get_entry", "get_entries", "count_keys", "contains_tokens",
     "contains_kv", "get_country_summaries", "get_duplicate_values", "get_entry_text"}

\* enum Request
Request == MultiOp \cup {"iter_section", "multi", "close"}

\* the fields of a variant that have no serde default
RequiredFields(op) ==
    CASE op = "extract_sections" -> {"sections"}
      [] op = "iter_section" -> {"section"}
      [] op = "get_entry" -> {"section", "key"}
      [] op = "get_entries" -> {"section", "keys"}
      [] op = "count_keys" -> {"keys"}
      [] op = "contains_tokens" -> {"tokens"}
      [] op = "contains_kv" -> {"pairs"}
      [] op = "get_country_summaries" -> {"fields"}
      [] op = "get_duplicate_values" -> {"section", "key", "field"}
      [] op = "get_entry_text" -> {"section", "key"}
      [] op = "multi" -> {"ops"}
      [] op = "close" -> {}

\* whether obj deserializes as a variant of the enum whose tags are `variants`
VariantOk(obj, variants) ==
    /\ "op" \in DOMAIN obj
    /\ obj.op \in variants
    /\ RequiredFields(obj.op) \subseteq DOMAIN obj
    /\ (obj.op = "iter_section" /\ "batch_size" \in DOMAIN obj) => obj.batch_size >= 0

\* the variant value: absent fields take their serde defaults
Variant(obj) ==
    CASE obj.op = "iter_section" ->
            [op |-> "iter_section", section |-> obj.section,
             batch_size |-> IF "batch_size" \in DOMAIN obj THEN obj.batch_size
                            ELSE default_batch_size]
      [] obj.op = "get_entries" ->
            [op |-> "get_entries", section |-> obj.section, keys |-> obj.keys,
             fields |-> IF "fields" \in DOMAIN obj THEN SomeFields(obj.fields)
                        ELSE NoFields]
      [] OTHER -> [f \in RequiredFields(obj.op) \cup {"op"} |-> obj[f]]

\* from_str dropping the sub-operations of a multi that are no MultiOp
from_str_SkipsBadOps(l) ==
    IF l.text = "json" /\ VariantOk(l.obj, Request)
    THEN [ok |-> TRUE,
          req |-> IF l.obj.op = "multi"
                  THEN [op |-> "multi",
                        ops |-> LET good == {i \in 1..Len(l.obj.ops) :
                                               VariantOk(l.obj.ops[i], MultiOp)}
                                IN IF good = {} THEN <<>>
                                   ELSE <<Variant(l.obj.ops[CHOOSE i \in good : TRUE])>>]
                  ELSE Variant(l.obj)]
    ELSE [ok |-> FALSE]

\* serde_json::from_str::<Request>(&line)
from_str(l) ==
    IF /\ l.text = "json"
       /\ VariantOk(l.obj, Request)
       /\ l.obj.op = "multi" =>
              \A i \in 1..Len(l.obj.ops) : VariantOk(l.obj.ops[i], MultiOp)
    THEN [ok |-> TRUE,
          req |-> IF l.obj.op = "multi"
                  THEN [op |-> "multi",
                        ops |-> [i \in 1..Len(l.obj.ops) |-> Variant(l.obj.ops[i])]]
                  ELSE Variant(l.obj)]
    ELSE [ok |-> FALSE]

\* the lines a client sends in this model
absent == <<"x", "y">>
IterSections == {country, version, absent}
BatchSizes == 0..3

GetEntryObj == [op |-> "get_entry", section |-> country, key |-> Digit(0)]
CountKeysObj == [op |-> "count_keys", keys |-> <<name, flag, absent>>]
DuplicateValuesObj ==
    [op |-> "get_duplicate_values", section |-> country, key |-> Digit(0), field |-> name]
ContainsTokensObj == [op |-> "contains_tokens", tokens |-> <<fleet, absent>>]
\* one sub-operation of every kind
MixedOps ==
    <<[op |-> "get_entry_text", section |-> country, key |-> Digit(0)],
      [op |-> "extract_sections", sections |-> <<country, meta, absent>>],
      [op |-> "get_entries", section |-> country, keys |-> <<Digit(0), Digit(1)>>,
       fields |-> <<name, absent, _key>>],
      ContainsTokensObj,
      [op |-> "contains_kv", pairs |-> << <<name, <<"c", "0">> >>, <<flag, <<"n", "o">> >> >>],
      [op |-> "get_country_summaries", fields |-> <<name, absent, id>>],
      DuplicateValuesObj,
      [op |-> "get_entry", section |-> country, key |-> Digit(9)],
      CountKeysObj>>

SingleObjs ==
    {[op |-> "extract_sections", sections |-> <<country, meta, absent>>],
     GetEntryObj,
     [op |-> "get_entry", section |-> country, key |-> Digit(9)],
     [op |-> "get_entry", section |-> version, key |-> Digit(0)],
     [op |-> "get_entries", section |-> country, keys |-> <<Digit(1), Digit(0), Digit(9)>>],
     [op |-> "get_entries", section |-> country, keys |-> <<Digit(0), Digit(1)>>,
      fields |-> <<name, absent, _key>>],
     [op |-> "get_entries", section |-> country,
      keys |-> <<Digit(2), Digit(0), Digit(9), Digit(2), Digit(1)>>],
     [op |-> "get_entries", section |-> version, keys |-> <<Digit(0)>>],
     [op |-> "get_entries", section |-> absent, keys |-> <<Digit(0)>>,
      fields |-> <<name>>],
     CountKeysObj,
     [op |-> "count_keys", keys |-> <<country, <<"x">>, name, <<"x">> >>],
     [op |-> "count_keys", keys |-> <<>>],
     ContainsTokensObj,
     [op |-> "contains_tokens", tokens |-> <<fleet, <<"l", "e">> >>],
     [op |-> "contains_tokens", tokens |-> <<>>],
     [op |-> "contains_kv",
      pairs |-> << <<version, <<"v", "1">> >>, <<name, <<"f">> >>, <<<<"x">>, <<"3">> >>,
                   <<<<"y">>, <<"3">> >>, <<fleet, <<"2">> >> >>],
     [op |-> "get_entry", section |-> country, key |-> Digit(0), schema_version |-> 2],
     [op |-> "contains_kv", pairs |-> << <<name, <<"c", "0">> >>, <<flag, <<"n", "o">> >> >>],
     [op |-> "get_country_summaries", fields |-> <<name, absent, id>>],
     DuplicateValuesObj,
     [op |-> "get_duplicate_values", section |-> absent, key |-> Digit(0), field |-> name],
     [op |-> "get_entry_text", section |-> country, key |-> Digit(0)],
     [op |-> "get_entry_text", section |-> country, key |-> Digit(9)],
     [op |-> "get_entry_text", section |-> country, key |-> Digit(2)]}

IterObjs ==
    {[op |-> "iter_section", section |-> s] : s \in IterSections}
    \cup {[op |-> "iter_section", section |-> s, batch_size |-> b] :
            s \in IterSections, b \in BatchSizes}

MultiObjs ==
    {[op |-> "multi", ops |-> <<>>],
     [op |-> "multi", ops |-> <<GetEntryObj, CountKeysObj>>],
     [op |-> "multi", ops |-> <<CountKeysObj, GetEntryObj>>],
     [op |-> "multi", ops |-> MixedOps],
     [op |-> "multi",
      ops |-> <<DuplicateValuesObj,
                [op |-> "get_duplicate_values", section |-> fleet, key |-> Digit(0),
                 field |-> name],
                DuplicateValuesObj,
                [op |-> "get_duplicate_values", section |-> absent, key |-> Digit(0),
                 field |-> name]>>],
     [op |-> "multi", ops |-> <<GetEntryObj, [op |-> "iter_section", section |-> country]>>],
     [op |-> "multi", ops |-> <<[op |-> "close"], GetEntryObj>>]}

\* objects that are JSON but no Request
BadObjs ==
    {[section |-> country],
     [op |-> "frobnicate", section |-> country],
     [op |-> "get_entry", section |-> country],
     [op |-> "iter_section", section |-> country, batch_size |-> 0 - 1]}

Lines ==
    {EmptyLine, GarbageLine}
    \cup {JsonLine(o) : o \in SingleObjs \cup IterObjs \cup MultiObjs \cup BadObjs
                              \cup {[op |-> "close"]}}

-----------------------------------------------------------------------------
(* Session start: ParsedSave::load and the error branch of run.  An error  *)
(* is its context chain, outermost first; format!("{:#}", e) joins the     *)
(* chain, so the message contains a phrase iff the chain holds it.         *)

LoadErrors ==
    {<<"Failed to open file", "No such file or directory">>,
     <<"Failed to open file", "Permission denied">>,
     <<"Failed to read ZIP archive", "invalid Zip archive">>,
     <<"No gamestate file in archive", "specified file not found in archive">>,
     <<"failed to fill whole buffer">>,
     <<"Failed to parse gamestate", "unexpected end of input">>,
     <<"Failed to parse meta file", "unexpected end of input">>}

\* whether the text of chain element `part` contains `phrase`
PartContains(part, phrase) ==
    \/ part = phrase
    \/ phrase = "No such file" /\ part = "No such file or directory"

\* message.contains(phrase)
contains(message, phrase) == \E i \in 1..Len(message) : PartContains(message[i], phrase)

\* the exit code run computes from the message of a failed load
load_exit_code(message) ==
    IF contains(message, "Failed to open file") \/ contains(message, "No such file")
    THEN exit_code_of("FileNotFound")
    ELSE exit_code_of("ParseError")

\* the envelope run writes for a failed load
load_error(message) == ErrorResponse("ParseError", message, load_exit_code(message))

\* stderr: nothing, the JSON object of exit_with_error, or a panic message
NoStderr == [kind |-> "none"]
PanicMessage == [kind |-> "panic"]
ErrorJson(error, message) ==
    [kind |-> "json", schema_version |-> SCHEMA_VERSION, tool_version |-> TOOL_VERSION,
     error |-> error, message |-> message]

\* exit_with_error(kind, message): what is printed and the exit code
exit_with_error(kind, message) ==
    [stderr |-> ErrorJson(error_type(kind), message), exit_code |-> exit_code_of(kind)]

\* handle_error(err): the kind is read off the message
handle_error(message) ==
    exit_with_error(IF \/ contains(message, "No such file or directory")
                       \/ contains(message, "Failed to open file")
                       \/ contains(message, "cannot find the file")
                       \/ contains(message, "The system cannot find")
                    THEN "FileNotFound"
                    ELSE "ParseError",
                    message)

\* the envelope run writes for a line that is no Request
request_error == ErrorResponse("InvalidRequest", <<"Failed to parse request">>,
                               exit_code_of("InvalidArgument"))

Init ==
    /\ pc = "start"
    /\ parsed = NoSave
    /\ line = NoLine
    /\ out = <<>>
    /\ nRead = 0
    /\ nReq = 0
    /\ nResp = 0
    /\ stdoutBroken = FALSE
    /\ exit_code = Running
    /\ cli = [command |-> "serve", path |-> "session.sav"]
    /\ touched = {}
    /\ stderr = NoStderr

\* the number of lines of msgs that reach stdout: all of them, or a proper
\* prefix when a write fails (every write fails once stdout is broken)
Writable(msgs) == IF stdoutBroken THEN {0} ELSE 0..Len(msgs)

\* A line on stdout begins a response unless it continues a stream: the
\* entry, batch and done lines of iter_section follow their header.
ContinuesStream(m) ==
    \/ "done" \in DOMAIN m
    \/ "entry" \in DOMAIN m /\ "found" \notin DOMAIN m
    \/ /\ "entries" \in DOMAIN m
       /\ m.entries # <<>>
       /\ "key" \in DOMAIN m.entries[1]

Responses(msgs) == Cardinality({i \in 1..Len(msgs) : ~ContinuesStream(msgs[i])})

\* stdout after the first k lines of msgs were written
Written(msgs, k) ==
    /\ out' = SubSeq(msgs, 1, k)
    /\ nResp' = nResp + Responses(SubSeq(msgs, 1, k))
    /\ stdoutBroken' = (stdoutBroken \/ k < Len(msgs))

\* ParsedSave::load(path) returns Ok: the request loop is entered
Load ==
    /\ pc = "start"
    /\ \E save \in Saves : parsed' = save
    /\ pc' = "ready"
    /\ UNCHANGED <<line, out, nRead, nReq, nResp, stdoutBroken, exit_code>>
    /\ UNCHANGED <<cli, touched, stderr>>

\* LoadFails writing the envelope and then entering the request loop
LoadFails_ThenServes ==
    /\ pc = "start"
    /\ \E e \in LoadErrors : \E k \in Writable(<<load_error(e)>>) :
          Written(<<load_error(e)>>, k)
    /\ pc' = "ready"
    /\ UNCHANGED <<parsed, line, nRead, nReq, exit_code, cli, touched, stderr>>

\* ParsedSave::load(path) returns Err: one envelope, then process::exit
LoadFails ==
    /\ pc = "start"
    /\ \E e \in LoadErrors : \E k \in Writable(<<load_error(e)>>) :
          /\ Written(<<load_error(e)>>, k)
          /\ exit_code' = load_exit_code(e)
    /\ pc' = "exited"
    /\ UNCHANGED <<parsed, line, nRead, nReq, cli, touched, stderr>>

-----------------------------------------------------------------------------
(* The request loop of run: one action per kind of line.  Each action is   *)
(* the whole iteration: the read, the deserialization, the handler and its *)
(* writes.                                                                 *)

CanRead == pc = "ready" /\ nRead < MaxLines

\* Read with the handler taking the raw bytes out of the retained save
Read_TakesBytes(l) ==
    /\ line' = l
    /\ nRead' = nRead + 1
    /\ nReq' = IF l = EmptyLine THEN nReq ELSE nReq + 1
    /\ parsed' = [parsed EXCEPT !.gamestate_bytes = <<>>]
    /\ UNCHANGED <<cli, touched>>

\* the line is consumed
Read(l) ==
    /\ line' = l
    /\ nRead' = nRead + 1
    /\ nReq' = IF l = EmptyLine THEN nReq ELSE nReq + 1
    /\ UNCHANGED <<parsed, cli, touched>>

\* Respond dropping the handler's result: the loop goes on after a failed write
Respond_DropsResult(msgs) ==
    \E k \in Writable(msgs) :
        /\ Written(msgs, k)
        /\ pc' = "ready"
        /\ exit_code' = Running
        /\ UNCHANGED stderr

\* a handler returns after writing msgs, or a prefix of them when a write
\* fails; an Err result breaks the loop and run returns Ok(())
Respond(msgs) ==
    \E k \in Writable(msgs) :
        /\ Written(msgs, k)
        /\ pc' = IF k = Len(msgs) THEN "ready" ELSE "ended"
        /\ exit_code' = IF k = Len(msgs) THEN Running ELSE 0
        /\ UNCHANGED stderr

\* a slice off a character boundary panics: nothing is written to stdout,
\* the panic message goes to stderr and the process aborts with the panic
\* exit code
Panic ==
    /\ out' = <<>>
    /\ pc' = "panicked"
    /\ exit_code' = 101
    /\ stderr' = PanicMessage
    /\ UNCHANGED <<nResp, stdoutBroken>>

\* SkipEmptyLine without the test for an empty line: the line goes to
\* from_str, which fails on it, and the error envelope is written
SkipEmptyLine_Rejects ==
    /\ CanRead
    /\ Read(EmptyLine)
    /\ \E k \in Writable(<<request_error>>) : Written(<<request_error>>, k)
    /\ UNCHANGED <<pc, exit_code, stderr>>

\* `if line.is_empty() { continue; }`
SkipEmptyLine ==
    /\ CanRead
    /\ Read(EmptyLine)
    /\ out' = <<>>
    /\ UNCHANGED <<pc, nResp, stdoutBroken, exit_code, stderr>>

\* RejectLine leaving the loop after the envelope
RejectLine_Breaks ==
    /\ CanRead
    /\ \E l \in Lines \ {EmptyLine} :
          /\ ~from_str(l).ok
          /\ Read(l)
    /\ \E k \in Writable(<<request_error>>) : Written(<<request_error>>, k)
    /\ pc' = "ended"
    /\ exit_code' = 0
    /\ UNCHANGED stderr

\* from_str fails: the envelope is written, its result dropped, and the
\* loop continues
RejectLine ==
    /\ CanRead
    /\ \E l \in Lines \ {EmptyLine} :
          /\ ~from_str(l).ok
          /\ Read(l)
    /\ \E k \in Writable(<<request_error>>) : Written(<<request_error>>, k)
    /\ UNCHANGED <<pc, exit_code, stderr>>

HandleExtractSections ==
    /\ CanRead
    /\ \E l \in Lines :
          /\ from_str(l).ok /\ from_str(l).req.op = "extract_sections"
          /\ Read(l)
          /\ Respond(<<Extract(extract_sections(parsed, from_str(l).req.sections))>>)

HandleIterSection ==
    /\ CanRead
    /\ \E l \in Lines :
          /\ from_str(l).ok /\ from_str(l).req.op = "iter_section"
          /\ Read(l)
          /\ Respond(handle_iter_section(parsed, from_str(l).req.section,
                                         from_str(l).req.batch_size))

HandleGetEntry ==
    /\ CanRead
    /\ \E l \in Lines :
          /\ from_str(l).ok /\ from_str(l).req.op = "get_entry"
          /\ Read(l)
          /\ Respond(<<SingleEntry(get_entry(parsed, from_str(l).req.section,
                                             from_str(l).req.key))>>)

HandleGetEntries ==
    /\ CanRead
    /\ \E l \in Lines :
          /\ from_str(l).ok /\ from_str(l).req.op = "get_entries"
          /\ Read(l)
          /\ LET req == from_str(l).req
             IN Respond(<<MultipleEntries(get_entries(parsed, req.section, req.keys,
                                                      req.fields))>>)

HandleCountKeys ==
    /\ CanRead
    /\ \E l \in Lines :
          /\ from_str(l).ok /\ from_str(l).req.op = "count_keys"
          /\ Read(l)
          /\ Respond(<<KeyCounts(count_keys(parsed, from_str(l).req.keys))>>)

HandleContainsTokens ==
    /\ CanRead
    /\ \E l \in Lines :
          /\ from_str(l).ok /\ from_str(l).req.op = "contains_tokens"
          /\ Read(l)
          /\ Respond(<<TokenMatches(contains_tokens(parsed.gamestate_bytes,
                                                    from_str(l).req.tokens))>>)

HandleContainsKv ==
    /\ CanRead
    /\ \E l \in Lines :
          /\ from_str(l).ok /\ from_str(l).req.op = "contains_kv"
          /\ Read(l)
          /\ Respond(<<KvMatches(contains_kv(parsed, from_str(l).req.pairs))>>)

HandleGetCountrySummaries ==
    /\ CanRead
    /\ \E l \in Lines :
          /\ from_str(l).ok /\ from_str(l).req.op = "get_country_summaries"
          /\ Read(l)
          /\ Respond(<<CountrySummaries(get_country_summaries(parsed,
                                                              from_str(l).req.fields))>>)

HandleGetDuplicateValues ==
    /\ CanRead
    /\ \E l \in Lines :
          /\ from_str(l).ok /\ from_str(l).req.op = "get_duplicate_values"
          /\ Read(l)
          /\ LET req == from_str(l).req
                 r == handle_get_duplicate_values(parsed.gamestate_bytes, req.section,
                                                  req.key, req.field)
             IN IF r.panic THEN Panic ELSE Respond(<<DuplicateValues(r)>>)

HandleGetEntryText ==
    /\ CanRead
    /\ \E l \in Lines :
          /\ from_str(l).ok /\ from_str(l).req.op = "get_entry_text"
          /\ Read(l)
          /\ LET req == from_str(l).req
                 r == handle_get_entry_text(parsed.gamestate_bytes, req.section, req.key)
             IN IF r.panic THEN Panic ELSE Respond(<<EntryText(r)>>)

HandleMultiOp ==
    /\ CanRead
    /\ \E l \in Lines :
          /\ from_str(l).ok /\ from_str(l).req.op = "multi"
          /\ Read(l)
          /\ LET r == handle_multi_op(parsed, from_str(l).req.ops)
             IN IF r.panic THEN Panic ELSE Respond(<<MultiResults(r.results)>>)

\* Close acknowledging without leaving the loop
Close_WithoutBreak ==
    /\ CanRead
    /\ \E l \in Lines :
          /\ from_str(l).ok /\ from_str(l).req.op = "close"
          /\ Read(l)
    /\ \E k \in Writable(<<Closed>>) :
          /\ Written(<<Closed>>, k)
          /\ pc' = IF k = 1 THEN "ready" ELSE "exited"
          /\ exit_code' = IF k = 1 THEN Running ELSE exit_code_of("ParseError")
          /\ stderr' = IF k = 1 THEN stderr ELSE handle_error(<<"Broken pipe">>).stderr

\* Request::Close: the acknowledgment is written and the loop is left; a
\* failed write is returned from run with `?` and main exits through
\* handle_error, which classifies an I/O error as ParseError
Close ==
    /\ CanRead
    /\ \E l \in Lines :
          /\ from_str(l).ok /\ from_str(l).req.op = "close"
          /\ Read(l)
    /\ \E k \in Writable(<<Closed>>) :
          /\ Written(<<Closed>>, k)
          /\ pc' = IF k = 1 THEN "closed" ELSE "exited"
          /\ exit_code' = IF k = 1 THEN 0 ELSE handle_error(<<"Broken pipe">>).exit_code
          /\ stderr' = IF k = 1 THEN stderr ELSE handle_error(<<"Broken pipe">>).stderr

\* reader.lines() is exhausted, or yields Err: the loop is left
EndOfInput ==
    /\ pc = "ready"
    /\ pc' = "ended"
    /\ exit_code' = 0
    /\ UNCHANGED <<parsed, line, out, nRead, nReq, nResp, stdoutBroken>>
    /\ UNCHANGED <<cli, touched, stderr>>

Next ==
    \/ Load
    \/ LoadFails
    \/ SkipEmptyLine
    \/ RejectLine
    \/ HandleExtractSections
    \/ HandleIterSection
    \/ HandleGetEntry
    \/ HandleGetEntries
    \/ HandleCountKeys
    \/ HandleContainsTokens
    \/ HandleContainsKv
    \/ HandleGetCountrySummaries
    \/ HandleGetDuplicateValues
    \/ HandleGetEntryText
    \/ HandleMultiOp
    \/ Close
    \/ EndOfInput

Spec == Init /\ [][Next]_vars

-----------------------------------------------------------------------------
(* The one-shot commands: extract-save, extract-gamestate and iter-save.   *)
(* main dispatches on the parsed command line; an Err returned by the      *)
(* command goes through handle_error.  A file is named by its path; what   *)
(* lies at each path is fixed.                                             *)

RECURSIVE StripZeros(_)
\* the decimal digits of a number without its leading zeros ("0" for zero)
StripZeros(ds) ==
    IF Len(ds) > 1 /\ Head(ds) = "0" THEN StripZeros(Tail(ds)) ELSE ds

\* u32::MAX in decimal
U32Max == <<"4", "2", "9", "4", "9", "6", "7", "2", "9", "5">>

\* whether the number written ds (no leading zeros) is at most u32::MAX
FitsU32(ds) ==
    \/ Len(ds) < Len(U32Max)
    \/ /\ Len(ds) = Len(U32Max)
       /\ \/ ds = U32Max
          \/ \E i \in 1..Len(ds) :
                /\ DigitValue(ds[i]) < DigitValue(U32Max[i])
                /\ \A j \in 1..(i - 1) : ds[j] = U32Max[j]

\* str::parse::<u32>: an optional "+", then one or more digits, no overflow.
\* The value is kept as its decimal text, which is how it is compared and
\* printed.
parse_u32(text) ==
    LET ds == IF text # <<>> /\ Head(text) = "+" THEN Tail(text) ELSE text
    IN IF /\ ds # <<>>
          /\ \A i \in 1..Len(ds) : IsDigit(ds[i])
          /\ FitsU32(StripZeros(ds))
       THEN [ok |-> TRUE, v |-> StripZeros(ds)]
       ELSE [ok |-> FALSE, v |-> <<>>]

\* validate_schema_version accepting whatever parses as a number
validate_schema_version_AnyNumber(text) ==
    IF parse_u32(text).ok
    THEN [ok |-> TRUE]
    ELSE [ok |-> FALSE,
          exit |-> exit_with_error("InvalidArgument", <<"Invalid schema version">>)]

\* validate_schema_version (extract.rs and iter.rs hold the same function)
validate_schema_version(text) ==
    LET r == parse_u32(text)
    IN IF r.ok /\ r.v = Digit(SCHEMA_VERSION)
       THEN [ok |-> TRUE]
       ELSE [ok |-> FALSE,
             exit |-> exit_with_error("InvalidArgument",
                         IF r.ok
                         THEN <<"Requested schema version is not supported">>
                         ELSE <<"Invalid schema version">>)]

RECURSIVE SplitFrom(_, _)
\* str::split(','): the pieces of text, `piece` being the one under way
SplitFrom(text, piece) ==
    IF text = <<>> THEN <<piece>>
    ELSE IF Head(text) = "," THEN <<piece>> \o SplitFrom(Tail(text), <<>>)
    ELSE SplitFrom(Tail(text), Append(piece, Head(text)))

RECURSIVE trim(_)
\* str::trim for the blanks that occur in the model's arguments
trim(text) ==
    IF text # <<>> /\ Head(text) = " " THEN trim(Tail(text))
    ELSE IF text # <<>> /\ text[Len(text)] = " " THEN trim(SubSeq(text, 1, Len(text) - 1))
    ELSE text

\* sections.split(',').map(|s| s.trim()).collect()
section_list(sections) ==
    LET pieces == SplitFrom(sections, <<>>)
    IN [i \in 1..Len(pieces) |-> trim(pieces[i])]

\* what lies at a path: no file, a file that cannot be opened, a ZIP archive
\* (its gamestate and meta entries absent, malformed or well-formed), or a
\* plain text file
File(path) ==
    CASE path = "missing.sav"      -> [kind |-> "missing", gamestate |-> "absent", meta |-> "absent"]
      [] path = "locked.sav"       -> [kind |-> "locked", gamestate |-> "absent", meta |-> "absent"]
      [] path = "nogamestate.sav"  -> [kind |-> "zip", gamestate |-> "absent", meta |-> "ok"]
      [] path = "nometa.sav"       -> [kind |-> "zip", gamestate |-> "ok", meta |-> "absent"]
      [] path = "badgamestate.sav" -> [kind |-> "zip", gamestate |-> "bad", meta |-> "ok"]
      [] path = "badmeta.sav"      -> [kind |-> "zip", gamestate |-> "ok", meta |-> "bad"]
      [] path = "good.sav"         -> [kind |-> "zip", gamestate |-> "ok", meta |-> "ok"]
      [] path = "gamestate.bad"    -> [kind |-> "text", gamestate |-> "bad", meta |-> "absent"]
      [] path = "gamestate"        -> [kind |-> "text", gamestate |-> "ok", meta |-> "absent"]

ArchivePaths ==
    {"missing.sav", "locked.sav", "nogamestate.sav", "nometa.sav", "badgamestate.sav",
     "badmeta.sav", "good.sav", "gamestate"}
TextPaths == {"missing.sav", "locked.sav", "gamestate.bad", "gamestate"}

\* the tree every well-formed gamestate of these files parses to
OneShotGamestate == Gamestate(MaxEntries - 1)

\* File::open(path).with_context(..)
open_file(path) ==
    CASE File(path).kind = "missing" ->
            [ok |-> FALSE, err |-> <<"Failed to open file", "No such file or directory">>]
      [] File(path).kind = "locked" ->
            [ok |-> FALSE, err |-> <<"Failed to open file", "Permission denied">>]
      [] OTHER -> [ok |-> TRUE, err |-> <<>>]

\* ZipArchive::new and the by_name reads of run_save; the meta entry is
\* looked up only when it is wanted
read_archive(path, wantMeta) ==
    CASE File(path).kind # "zip" ->
            [ok |-> FALSE, err |-> <<"Failed to read ZIP archive", "invalid Zip archive">>]
      [] File(path).gamestate = "absent" ->
            [ok |-> FALSE, err |-> <<"No gamestate file in archive",
                                     "specified file not found in archive">>]
      [] wantMeta /\ File(path).meta = "absent" ->
            [ok |-> FALSE, err |-> <<"No meta file in archive",
                                     "specified file not found in archive">>]
      [] OTHER -> [ok |-> TRUE, err |-> <<>>]

RECURSIVE ExtractRequested(_, _, _, _)
\* the loop of extract_sections (extract.rs) over the requested names; the
\* meta payload is parsed when its name comes up
ExtractRequested(result, path, withMeta, sections) ==
    IF sections = <<>> THEN [ok |-> TRUE, result |-> result, err |-> <<>>]
    ELSE LET section == Head(sections)
         IN IF section = meta
            THEN IF ~withMeta
                 THEN ExtractRequested(result, path, withMeta, Tail(sections))
                 ELSE IF File(path).meta = "bad"
                 THEN [ok |-> FALSE, result |-> <<>>,
                       err |-> <<"Failed to parse meta file", "unexpected end of input">>]
                 ELSE ExtractRequested(insert(result, meta, Object(Meta)), path, withMeta,
                                       Tail(sections))
            ELSE ExtractRequested(
                     IF contains_key(OneShotGamestate, section)
                     THEN insert(result, section, get(OneShotGamestate, section))
                     ELSE result,
                     path, withMeta, Tail(sections))

\* extract_sections of extract.rs: the document, or the parse error
extract_document(path, withMeta, sections) ==
    IF File(path).gamestate = "bad"
    THEN [ok |-> FALSE, result |-> <<>>,
          err |-> <<"Failed to parse gamestate", "unexpected end of input">>]
    ELSE ExtractRequested(MetadataEntries, path, withMeta, sections)

\* the lines iter::run_save prints for a section: the first carries the
\* metadata
\* iter_lines never clearing is_first: every line carries the metadata
iter_lines_AlwaysFirst(section) ==
    IF contains_key(OneShotGamestate, section) /\ IsObject(get(OneShotGamestate, section))
    THEN LET map == get(OneShotGamestate, section).entries
         IN [i \in 1..Len(map) |->
               [schema_version |-> SCHEMA_VERSION, tool_version |-> TOOL_VERSION,
                game |-> stellaris, section |-> section,
                key |-> map[i].key, value |-> map[i].value]]
    ELSE <<>>

iter_lines(section) ==
    IF contains_key(OneShotGamestate, section) /\ IsObject(get(OneShotGamestate, section))
    THEN LET map == get(OneShotGamestate, section).entries
         IN [i \in 1..Len(map) |->
               IF i = 1
               THEN [schema_version |-> SCHEMA_VERSION, tool_version |-> TOOL_VERSION,
                     game |-> stellaris, section |-> section,
                     key |-> map[i].key, value |-> map[i].value]
               ELSE [key |-> map[i].key, value |-> map[i].value]]
    ELSE <<>>

\* the command lines of this model
SchemaVersionArgs ==
    {<<"1">>, <<"2">>, <<"0">>, <<"0", "1">>, <<"+", "1">>, <<"-", "1">>, <<"v", "1">>,
     <<"1", ".", "0">>, <<>>, <<"4", "2", "9", "4", "9", "6", "7", "2", "9", "7">>}
SectionsArgs ==
    {country \o <<",">> \o meta, meta \o <<",", " ">> \o version, absent, <<>>}
OutputArgs == {"-", "out.json", "nodir/out.json"}
FormatArgs == {"jsonl", "csv"}

\* enum Commands without Serve
CommandLines ==
    {[command |-> "extract_save", path |-> p, sections |-> x, schema_version |-> v,
      output |-> o] :
        p \in ArchivePaths, x \in SectionsArgs, v \in SchemaVersionArgs, o \in OutputArgs}
    \cup {[command |-> "iter_save", path |-> p, section |-> x, schema_version |-> v,
           format |-> f] :
        p \in ArchivePaths, x \in IterSections, v \in SchemaVersionArgs, f \in FormatArgs}
    \cup {[command |-> "extract_gamestate", path |-> p, sections |-> x,
           schema_version |-> v, output |-> o] :
        p \in TextPaths, x \in SectionsArgs, v \in SchemaVersionArgs, o \in OutputArgs}

OneShotInit ==
    /\ pc = "main"
    /\ cli \in CommandLines
    /\ stdoutBroken \in BOOLEAN
    /\ parsed = NoSave
    /\ line = NoLine
    /\ out = <<>>
    /\ nRead = 0
    /\ nReq = 0
    /\ nResp = 0
    /\ exit_code = Running
    /\ touched = {}
    /\ stderr = NoStderr

\* the process exits the way exit_with_error does
Exit(e) ==
    /\ pc' = "exited"
    /\ exit_code' = e.exit_code
    /\ stderr' = e.stderr

\* println! on a stdout that cannot be written panics
PrintPanics ==
    /\ pc' = "panicked"
    /\ exit_code' = 101
    /\ stderr' = PanicMessage

\* the command returns Ok(()) and main returns
Done ==
    /\ pc' = "done"
    /\ exit_code' = 0
    /\ UNCHANGED stderr

\* the first statement of run_save and run_gamestate
ValidateSchemaVersion ==
    /\ pc = "main"
    /\ LET r == validate_schema_version(cli.schema_version)
       IN IF r.ok
          THEN pc' = "validated" /\ UNCHANGED <<exit_code, stderr>>
          ELSE Exit(r.exit)
    /\ UNCHANGED <<parsed, line, out, nRead, nReq, nResp, stdoutBroken, cli, touched>>

\* iter::run_save: `if format != "jsonl"`
ValidateFormat ==
    /\ pc = "validated"
    /\ cli.command = "iter_save"
    /\ IF cli.format = "jsonl"
       THEN pc' = "format_ok" /\ UNCHANGED <<exit_code, stderr>>
       ELSE Exit(exit_with_error("InvalidArgument", <<"Unsupported format">>))
    /\ UNCHANGED <<parsed, line, out, nRead, nReq, nResp, stdoutBroken, cli, touched>>

\* File::open(path)
OpenFile ==
    /\ pc = IF cli.command = "iter_save" THEN "format_ok" ELSE "validated"
    /\ touched' = touched \cup {"open"}
    /\ LET r == open_file(cli.path)
       IN IF r.ok
          THEN pc' = "opened" /\ UNCHANGED <<exit_code, stderr>>
          ELSE Exit(handle_error(r.err))
    /\ UNCHANGED <<parsed, line, out, nRead, nReq, nResp, stdoutBroken, cli>>

\* whether extract::run_save reads the meta entry
WantsMeta ==
    /\ cli.command = "extract_save"
    /\ \E i \in 1..Len(section_list(cli.sections)) : section_list(cli.sections)[i] = meta

\* ZipArchive::new and the reads of the entries
ReadArchive ==
    /\ pc = "opened"
    /\ cli.command \in {"extract_save", "iter_save"}
    /\ touched' = touched \cup {"read"}
    /\ LET r == read_archive(cli.path, WantsMeta)
       IN IF r.ok
          THEN pc' = "read" /\ UNCHANGED <<exit_code, stderr>>
          ELSE Exit(handle_error(r.err))
    /\ UNCHANGED <<parsed, line, out, nRead, nReq, nResp, stdoutBroken, cli>>

\* run_gamestate: file.read_to_end
ReadFile ==
    /\ pc = "opened"
    /\ cli.command = "extract_gamestate"
    /\ touched' = touched \cup {"read"}
    /\ pc' = "read"
    /\ UNCHANGED <<parsed, line, out, nRead, nReq, nResp, stdoutBroken, exit_code, cli,
                   stderr>>

\* extract_sections and write_output of run_save and run_gamestate
ExtractSections ==
    /\ pc = "read"
    /\ cli.command \in {"extract_save", "extract_gamestate"}
    /\ LET d == extract_document(cli.path, WantsMeta, section_list(cli.sections))
       IN CASE ~d.ok ->
                  /\ Exit(handle_error(d.err))
                  /\ touched' = touched \cup {"parse"}
                  /\ UNCHANGED out
            [] d.ok /\ cli.output = "-" ->
                  /\ touched' = touched \cup {"parse"}
                  /\ IF stdoutBroken
                     THEN PrintPanics /\ UNCHANGED out
                     ELSE Done /\ out' = <<Object(d.result)>>
            [] d.ok /\ cli.output = "out.json" ->
                  /\ touched' = touched \cup {"parse", "create"}
                  /\ Done
                  /\ UNCHANGED out
            [] OTHER ->
                  /\ touched' = touched \cup {"parse"}
                  /\ Exit(handle_error(<<"No such file or directory">>))
                  /\ UNCHANGED out
    /\ UNCHANGED <<parsed, line, nRead, nReq, nResp, stdoutBroken, cli>>

\* the parse and the print loop of iter::run_save
IterSave ==
    /\ pc = "read"
    /\ cli.command = "iter_save"
    /\ touched' = touched \cup {"parse"}
    /\ IF File(cli.path).gamestate = "bad"
       THEN /\ Exit(handle_error(<<"Failed to parse gamestate", "unexpected end of input">>))
            /\ UNCHANGED out
       ELSE IF iter_lines(cli.section) # <<>> /\ stdoutBroken
       THEN PrintPanics /\ UNCHANGED out
       ELSE Done /\ out' = iter_lines(cli.section)
    /\ UNCHANGED <<parsed, line, nRead, nReq, nResp, stdoutBroken, cli>>

OneShotNext ==
    \/ ValidateSchemaVersion
    \/ ValidateFormat
    \/ OpenFile
    \/ ReadArchive
    \/ ReadFile
    \/ ExtractSections
    \/ IterSave

OneShot == OneShotInit /\ [][OneShotNext]_vars

-----------------------------------------------------------------------------
(* Properties of the session protocol *)

\* the request the last line read deserialized to
Parsed == from_str(line).ok
Req == from_str(line).req
IsOp(op) == Parsed /\ Req.op = op

\* the field that tells each non-streaming response from the others
AnswerField(op) ==
    CASE op = "extract_sections" -> "data"
      [] op = "get_entry" -> "found"
      [] op = "get_entries" -> "entries"
      [] op = "count_keys" -> "counts"
      [] op = "contains_tokens" -> "matches"
      [] op = "contains_kv" -> "matches"
      [] op = "get_country_summaries" -> "countries"
      [] op = "get_duplicate_values" -> "values"
      [] op = "get_entry_text" -> "text"
      [] op = "multi" -> "results"

IsHeader(m, section) ==
    m.ok /\ "stream" \in DOMAIN m /\ m.stream /\ m.op = "iter_section" /\ m.section = section
IsDone(m, section) ==
    m.ok /\ "done" \in DOMAIN m /\ m.done /\ m.op = "iter_section" /\ m.section = section
IsStreamEntry(m) ==
    m.ok /\ DOMAIN m = {"ok", "entry"} /\ DOMAIN m.entry = {"key", "value"}
IsStreamBatch(m) ==
    /\ m.ok /\ DOMAIN m = {"ok", "entries"}
    /\ \A i \in 1..Len(m.entries) : DOMAIN m.entries[i] = {"key", "value"}
IsErrorEnvelope(m) == ~m.ok /\ "error" \in DOMAIN m /\ "exit_code" \in DOMAIN m

\* the lines between the header and the done line of a completed stream
Body == SubSeq(out, 2, Len(out) - 1)

\* C1: when the server is back waiting for input after a line that parsed
\* as a non-streaming request other than close, exactly one line was
\* written for it, that line is the success response of that operation,
\* and as many responses were begun on stdout as non-empty lines were read
\* (so the k-th response answers the k-th non-empty line).
C1_OneResponsePerRequest ==
    (pc = "ready" /\ Parsed /\ Req.op \in MultiOp \cup {"multi"}) =>
        /\ Len(out) = 1
        /\ out[1].ok
        /\ AnswerField(Req.op) \in DOMAIN out[1]
        /\ ~ContinuesStream(out[1])
        /\ nResp = nReq

C1_Witness ==
    /\ pc = "ready" /\ IsOp("multi") /\ Len(Req.ops) = 2
    /\ nReq = 2 /\ nResp = 2
    /\ Len(out) = 1 /\ Len(out[1].results) = 2

\* C2: the lines written for an iter_section request are a stream header
\* carrying the requested section, then only entry or batch lines, then,
\* last and only once, a done line carrying the section; no error envelope
\* is among them, and when the section is absent or no Object the completed
\* stream is header and done alone.  (A stream cut short by a failed write
\* is a prefix of this.)
C2_StreamFraming ==
    IsOp("iter_section") =>
        /\ Len(out) >= 1 => IsHeader(out[1], Req.section)
        /\ \A i \in 2..Len(out) :
              /\ out[i].ok
              /\ IsStreamEntry(out[i]) \/ IsStreamBatch(out[i]) \/ IsDone(out[i], Req.section)
              /\ "done" \in DOMAIN out[i] => i = Len(out)
        /\ pc = "ready" => (Len(out) >= 2 /\ IsDone(out[Len(out)], Req.section))
        /\ (pc = "ready" /\ ~SectionIsObject(parsed, Req.section)) => Len(out) = 2
        /\ pc = "ready" => nResp = nReq

C2_Witness ==
    /\ pc = "ready" /\ IsOp("iter_section") /\ Req.section = version
    /\ contains_key(parsed.gamestate, version)
    /\ out = <<StreamHeader(version), StreamDone(version)>>

\* ceil(n / b)
CeilDiv(n, b) == (n + b - 1) \div b

\* C3: a completed iter_section with batch_size b >= 2 over a section
\* Object of N entries writes exactly ceil(N/b) batch lines; each holds b
\* entries except the last, which holds 1..b; their concatenation is the
\* section's entries, each once, in iteration order.
C3_Batches ==
    (pc = "ready" /\ IsOp("iter_section") /\ Req.batch_size >= 2
        /\ SectionIsObject(parsed, Req.section)) =>
        LET map == SectionMap(parsed, Req.section)
            b == Req.batch_size
        IN /\ Len(Body) = CeilDiv(Len(map), b)
           /\ \A i \in 1..Len(Body) :
                 /\ IsStreamBatch(Body[i])
                 /\ Len(Body[i].entries) >= 1
                 /\ Len(Body[i].entries) <= b
                 /\ i < Len(Body) => Len(Body[i].entries) = b
           /\ Flatten([i \in 1..Len(Body) |-> Body[i].entries]) = map

C3_Witness ==
    /\ pc = "ready" /\ IsOp("iter_section") /\ Req.batch_size = 2
    /\ SectionIsObject(parsed, Req.section)
    /\ Len(SectionMap(parsed, Req.section)) = 3
    /\ Len(Body) = 2
    /\ Len(Body[1].entries) = 2 /\ Len(Body[2].entries) = 1

\* C4: a completed iter_section with batch_size 0 or 1 over a section
\* Object of N entries writes exactly N entry lines and no batch line, the
\* i-th carrying the key and value of the i-th entry.
C4_PerEntry ==
    (pc = "ready" /\ IsOp("iter_section") /\ Req.batch_size <= 1
        /\ SectionIsObject(parsed, Req.section)) =>
        LET map == SectionMap(parsed, Req.section)
        IN /\ Len(Body) = Len(map)
           /\ \A i \in 1..Len(Body) :
                 /\ IsStreamEntry(Body[i])
                 /\ Body[i].entry = map[i]

C4_Witness ==
    /\ pc = "ready" /\ IsOp("iter_section") /\ Req.batch_size = 1
    /\ SectionIsObject(parsed, Req.section)
    /\ Len(SectionMap(parsed, Req.section)) = 3
    /\ Len(out) = 5

\* C5: an iter_section line without batch_size is deserialized with batch
\* size 100 and one with batch_size n with n, and the stream written is the
\* one handle_iter_section writes for that size.
C5_BatchSize ==
    IsOp("iter_section") =>
        LET size == IF "batch_size" \in DOMAIN line.obj THEN line.obj.batch_size ELSE 100
        IN /\ Req.batch_size = size
           /\ pc = "ready" => out = handle_iter_section(parsed, line.obj.section, size)

C5_Witness ==
    /\ pc = "ready" /\ IsOp("iter_section") /\ "batch_size" \notin DOMAIN line.obj
    /\ Req.section = country
    /\ SectionIsObject(parsed, country)
    /\ Len(SectionMap(parsed, country)) = 3
    /\ Len(out) = 3 /\ Len(out[2].entries) = 3

\* C6: once a close line was read the loop is over: the server never waits
\* for input again, nothing more is read or written, and unless the write
\* failed exactly one line, the closed acknowledgment, was written for it.
C6_CloseEndsLoop ==
    /\ [](IsOp("close") =>
            /\ pc \in {"closed", "exited"}
            /\ exit_code # Running
            /\ Len(out) <= 1
            /\ pc = "closed" <=> out = <<Closed>>
            /\ pc = "closed" => nResp = nReq)
    /\ [][IsOp("close") => UNCHANGED vars]_vars

C6_Witness ==
    /\ pc = "closed" /\ IsOp("close")
    /\ out = <<Closed>>
    /\ nRead = 1 /\ nRead < MaxLines

\* a step that reads a non-empty line that is no Request
RejectStep == nRead' = nRead + 1 /\ line' # EmptyLine /\ ~from_str(line').ok

\* C7: a line that is not JSON, names no known operation or lacks a
\* required field (or nests iter_section or close in a multi) leaves the
\* server waiting for the next line with the Parsed Save unchanged; one
\* error envelope and nothing else is written for it (none only if the
\* write fails), and the next line can be read and handled.
C7_RejectedLineIsLocal ==
    /\ [][RejectStep =>
            /\ pc' = "ready"
            /\ exit_code' = Running
            /\ parsed' = parsed
            /\ Len(out') <= 1
            /\ \A i \in 1..Len(out') : IsErrorEnvelope(out'[i])
            /\ ~stdoutBroken' => (Len(out') = 1 /\ nResp' = nReq')]_vars
    /\ []((pc = "ready" /\ line # NoLine /\ line # EmptyLine /\ ~Parsed
            /\ nRead < MaxLines) =>
            (ENABLED HandleGetEntry /\ ENABLED Close))

C7_Witness ==
    /\ pc = "ready"
    /\ line = JsonLine([op |-> "get_entry", section |-> country])
    /\ Len(out) = 1 /\ IsErrorEnvelope(out[1])
    /\ nRead < MaxLines
    /\ parsed \in Saves

\* C8 (as claimed): the envelope written for a line that is no Request
\* names the error kind InvalidArgument and carries exit_code 3.
C8_Claimed ==
    (line # NoLine /\ line # EmptyLine /\ ~Parsed) =>
        \A i \in 1..Len(out) :
            /\ out[i].error = error_type("InvalidArgument")
            /\ out[i].exit_code = 3

\* the failed load: the process left "start" without a Parsed Save
LoadFailed == pc # "start" /\ parsed = NoSave

\* C9: when the load fails the process exits with a code other than 0; at
\* most one line was written, an error envelope carrying the exit code
\* (exactly one unless the write failed); no line was ever read, no
\* success response written, and nothing happens afterwards.
C9_LoadFailureIsFatal ==
    LoadFailed =>
        /\ pc = "exited"
        /\ exit_code \in {1, 2}
        /\ nRead = 0 /\ nReq = 0 /\ line = NoLine
        /\ Len(out) <= 1
        /\ \A i \in 1..Len(out) :
              IsErrorEnvelope(out[i]) /\ out[i].exit_code = exit_code
        /\ ~stdoutBroken => Len(out) = 1
        /\ ~ENABLED Next

C9_Witness ==
    /\ LoadFailed
    /\ Len(out) = 1
    /\ contains(out[1].message, "Failed to parse gamestate")
    /\ exit_code = 2

\* C10 (as claimed): in every error envelope the kind named in `error` is
\* one of the three kinds and exit_code is that kind's code; a load that
\* fails on a missing file is reported as FileNotFound with exit_code 1.
C10_Claimed ==
    \A i \in 1..Len(out) :
        IsErrorEnvelope(out[i]) =>
            /\ out[i].error \in ErrorKind
            /\ out[i].exit_code = exit_code_of(out[i].error)
            /\ contains(out[i].message, "No such file or directory") =>
                  (out[i].error = "FileNotFound" /\ out[i].exit_code = 1)

-----------------------------------------------------------------------------
(* Properties of the error classification and of the one-shot commands *)

\* the message reports that a named entry is missing from the archive
PayloadAbsent(message) ==
    \/ contains(message, "No gamestate file in archive")
    \/ contains(message, "No meta file in archive")

\* C11 (as claimed): an archive that lacks the gamestate entry, or the meta
\* entry when it is wanted, is reported as FileNotFound with exit code 1,
\* by the one-shot commands on stderr and by the session on stdout.
C11_Claimed ==
    /\ (stderr.kind = "json" /\ PayloadAbsent(stderr.message)) =>
          (stderr.error = "FileNotFound" /\ exit_code = 1)
    /\ \A i \in 1..Len(out) :
          ("ok" \in DOMAIN out[i] /\ ~out[i].ok /\ PayloadAbsent(out[i].message)) =>
              (out[i].error = "FileNotFound" /\ out[i].exit_code = 1 /\ exit_code = 1)

\* the argument spells the supported version: an optional "+", any zeros, then the digits of SCHEMA_VERSION
SpellsSupported(text) ==
    \E sign \in {<<>>, <<"+">>} : \E k \in 0..Len(text) :
        text = sign \o [i \in 1..k |-> "0"] \o Digit(SCHEMA_VERSION)

\* C15: a one-shot command whose schema version argument is not the
\* supported version exits in its first step with the InvalidArgument error
\* on stderr and exit code 3, having neither opened, read nor parsed the
\* file, nor written anything to stdout; no other argument is refused there.
C15_SchemaVersionFirst ==
    /\ (pc # "main" /\ cli.command # "serve" /\ ~SpellsSupported(cli.schema_version)) =>
          /\ pc = "exited"
          /\ exit_code = 3
          /\ stderr.kind = "json" /\ stderr.error = "InvalidArgument"
          /\ touched = {}
          /\ out = <<>>
    /\ (cli.command # "serve" /\ touched # {}) => SpellsSupported(cli.schema_version)

C15_Witness ==
    /\ pc = "exited"
    /\ cli.command = "iter_save" /\ cli.path = "good.sav"
    /\ cli.schema_version = <<"2">>
    /\ exit_code = 3 /\ stderr.error = "InvalidArgument"
    /\ touched = {}

-----------------------------------------------------------------------------
(* Properties of multi and of the response envelopes *)

\* the result a sub-operation has on its own
ResultOf(op) ==
    CASE op.op = "extract_sections" -> [data |-> extract_sections(parsed, op.sections)]
      [] op.op = "get_entry" -> get_entry(parsed, op.section, op.key)
      [] op.op = "get_entries" ->
            [entries |-> get_entries(parsed, op.section, op.keys, op.fields)]
      [] op.op = "count_keys" -> [counts |-> count_keys(parsed, op.keys)]
      [] op.op = "contains_tokens" ->
            [matches |-> contains_tokens(parsed.gamestate_bytes, op.tokens)]
      [] op.op = "contains_kv" -> [matches |-> contains_kv(parsed, op.pairs)]
      [] op.op = "get_country_summaries" ->
            [countries |-> get_country_summaries(parsed, op.fields)]
      [] op.op = "get_duplicate_values" ->
            LET r == handle_get_duplicate_values(parsed.gamestate_bytes, op.section,
                                                 op.key, op.field)
            IN [values |-> r.values, found |-> r.found]
      [] op.op = "get_entry_text" ->
            LET r == handle_get_entry_text(parsed.gamestate_bytes, op.section, op.key)
            IN [text |-> r.text, found |-> r.found]

\* C12: the response to a multi request with ops o1..on is one line whose
\* results list has exactly n elements, the i-th being the result of oi.
C12_MultiResultsInOrder ==
    (pc = "ready" /\ IsOp("multi")) =>
        /\ Len(out) = 1
        /\ DOMAIN out[1] = {"ok", "results"}
        /\ out[1].ok
        /\ Len(out[1].results) = Len(Req.ops)
        /\ \A i \in 1..Len(Req.ops) : out[1].results[i] = ResultOf(Req.ops[i])

C12_Witness ==
    /\ pc = "ready" /\ IsOp("multi")
    /\ Len(Req.ops) = Len(MixedOps)
    /\ Len(out) = 1 /\ Len(out[1].results) = Len(MixedOps)
    /\ "text" \in DOMAIN out[1].results[1]
    /\ "counts" \in DOMAIN out[1].results[Len(MixedOps)]

\* a multi line one of whose sub-operations is iter_section or close
NestsStreamOrClose(l) ==
    /\ l.text = "json"
    /\ "op" \in DOMAIN l.obj /\ l.obj.op = "multi"
    /\ "ops" \in DOMAIN l.obj
    /\ \E i \in 1..Len(l.obj.ops) : l.obj.ops[i].op \in {"iter_section", "close"}

\* C13: reading a multi line that nests an iter_section or a close writes
\* one error envelope and nothing else (none only if the write fails): no
\* results, no stream line, no closed acknowledgment; the Parsed Save is
\* unchanged and the server waits for the next line, which it can read.
C13_NestedStreamOrCloseRejected ==
    /\ [][(nRead' = nRead + 1 /\ NestsStreamOrClose(line')) =>
            /\ pc' = "ready"
            /\ exit_code' = Running
            /\ parsed' = parsed
            /\ Len(out') <= 1
            /\ \A i \in 1..Len(out') :
                  /\ IsErrorEnvelope(out'[i])
                  /\ DOMAIN out'[i] \cap {"results", "stream", "done", "closed"} = {}
            /\ ~stdoutBroken' => Len(out') = 1]_vars
    /\ []((pc = "ready" /\ NestsStreamOrClose(line) /\ nRead < MaxLines) =>
            (ENABLED HandleGetEntry /\ ENABLED Close))

C13_Witness ==
    /\ pc = "ready"
    /\ line = JsonLine([op |-> "multi", ops |-> <<[op |-> "close"], GetEntryObj>>])
    /\ Len(out) = 1 /\ IsErrorEnvelope(out[1])
    /\ nRead < MaxLines
    /\ exit_code = Running

\* C14 (as claimed): every line written to stdout in session mode carries
\* a schema_version field.
C14_Claimed ==
    \A i \in 1..Len(out) : "schema_version" \in DOMAIN out[i]

\* C16 (as claimed): a session handed a request for a schema version other
\* than the supported one answers with InvalidArgument and has not loaded
\* the save.
C16_Claimed ==
    (/\ line.text = "json"
     /\ "schema_version" \in DOMAIN line.obj
     /\ line.obj.schema_version # SCHEMA_VERSION) =>
        /\ parsed = NoSave
        /\ \A i \in 1..Len(out) :
              IsErrorEnvelope(out[i]) /\ out[i].error = error_type("InvalidArgument")

-----------------------------------------------------------------------------
(* Properties of the tree queries *)

RECURSIVE EntryPaths(_)
\* the positions of the Object entries inside a value: a position is the
\* list of entry and item indexes that leads to the entry
EntryPaths(v) ==
    CASE v.t = "obj" ->
            UNION {{<<i>>} \cup {<<i>> \o q : q \in EntryPaths(v.entries[i].value)} :
                     i \in 1..Len(v.entries)}
      [] v.t = "arr" ->
            UNION {{<<i>> \o q : q \in EntryPaths(v.items[i])} : i \in 1..Len(v.items)}
      [] OTHER -> {}

RECURSIVE EntryAt(_, _)
\* the entry at a position of EntryPaths(v)
EntryAt(v, q) ==
    IF v.t = "obj"
    THEN IF Len(q) = 1 THEN v.entries[q[1]] ELSE EntryAt(v.entries[q[1]].value, Tail(q))
    ELSE EntryAt(v.items[q[1]], Tail(q))

\* the Object entries named k inside the subtrees of the sections: the
\* top-level assignments themselves are not among them
Occurrences(k) ==
    UNION {{<<i>> \o q : q \in {e \in EntryPaths(parsed.gamestate[i].value) :
                                   EntryAt(parsed.gamestate[i].value, e).key = k}} :
             i \in 1..Len(parsed.gamestate)}

\* C17: the response to count_keys maps exactly the requested names, each to
\* the number of Object entries of that name inside the subtrees of the
\* gamestate's sections, at any depth and inside Arrays; 0 when there are
\* none.
C17_CountKeys ==
    (pc = "ready" /\ IsOp("count_keys")) =>
        /\ Len(out) = 1
        /\ DOMAIN out[1].counts = Range(Req.keys)
        /\ \A k \in Range(Req.keys) : out[1].counts[k] = Cardinality(Occurrences(k))

C17_Witness ==
    /\ pc = "ready" /\ IsOp("count_keys")
    /\ parsed = NestedSave
    /\ Len(Req.keys) = 4
    /\ DOMAIN out[1].counts = {country, <<"x">>, name}
    /\ out[1].counts[<<"x">>] = 3
    /\ out[1].counts[name] = 0

\* the token occurs in the text as a run of consecutive bytes
Occurs(token, text) == \E i \in 0..Len(text) : MatchAt(text, token, i)

\* C18 (as claimed): the response to contains_tokens maps exactly the
\* requested tokens, each to TRUE iff it occurs in the gamestate bytes,
\* whatever the other tokens of the list are.
C18_Claimed ==
    (pc = "ready" /\ IsOp("contains_tokens")) =>
        /\ DOMAIN out[1].matches = Range(Req.tokens)
        /\ \A t \in Range(Req.tokens) :
              out[1].matches[t] = Occurs(t, parsed.gamestate_bytes)

\* some Object entry of the tree, the root's own entries included, is named
\* k and has a scalar value that renders as `text`
HasAssignment(k, text) ==
    LET root == Object(parsed.gamestate)
    IN \E q \in EntryPaths(root) :
          /\ EntryAt(root, q).key = k
          /\ ScalarText(EntryAt(root, q).value).ok
          /\ ScalarText(EntryAt(root, q).value).s = text

\* C19 (as claimed): the response to contains_kv has one key "k=v" per
\* requested pair, TRUE iff an Object entry at any depth of the gamestate
\* tree, the top-level assignments included, is named k and has a scalar
\* value rendering as v.
C19_Claimed ==
    (pc = "ready" /\ IsOp("contains_kv")) =>
        /\ DOMAIN out[1].matches = {KvKey(Req.pairs[i]) : i \in 1..Len(Req.pairs)}
        /\ \A i \in 1..Len(Req.pairs) :
              out[1].matches[KvKey(Req.pairs[i])]
                  = HasAssignment(Req.pairs[i][1], Req.pairs[i][2])

\* the requested keys that the section has, in the order of the request
PresentKeys ==
    LET Present(k) == /\ SectionIsObject(parsed, Req.section)
                      /\ contains_key(SectionMap(parsed, Req.section), k)
    IN SelectSeq(Req.keys, Present)

\* C20: the entries list of a get_entries response has one element for each
\* occurrence in the key list of a key the section has, in the order of the
\* key list, tagged with that key unless the projection asks for a field
\* called _key (and, without projection, holding that entry's value); it is
\* empty when the section is absent or no Object.
C20_GetEntriesInKeyOrder ==
    (pc = "ready" /\ IsOp("get_entries")) =>
        /\ Len(out) = 1 /\ out[1].ok
        /\ Len(out[1].entries) = Len(PresentKeys)
        /\ \A i \in 1..Len(PresentKeys) :
              LET e == out[1].entries[i]
              IN /\ IsObject(e)
                 /\ (Req.fields.some => _key \notin Range(Req.fields.list)) =>
                       get(e.entries, _key) = String(PresentKeys[i])
                 /\ ~Req.fields.some =>
                       get(e.entries, _value)
                           = get(SectionMap(parsed, Req.section), PresentKeys[i])
        /\ ~SectionIsObject(parsed, Req.section) => out[1].entries = <<>>

C20_Witness ==
    /\ pc = "ready" /\ IsOp("get_entries")
    /\ Len(Req.keys) = 5
    /\ SectionIsObject(parsed, country)
    /\ Len(SectionMap(parsed, country)) = 3
    /\ Len(out[1].entries) = 4
    /\ get(out[1].entries[1].entries, _key) = String(Digit(2))
    /\ get(out[1].entries[3].entries, _key) = String(Digit(2))
    /\ get(out[1].entries[4].entries, _key) = String(Digit(1))

\* the keys an Object holds
Keys(entries) == {entries[i].key : i \in 1..Len(entries)}

\* C21: every element of a get_entries response is tagged, under _key, with
\* the requested key it was fetched under; when a field list is given and
\* the entry is an Object the element holds the tag and exactly the
\* requested fields the entry has, with the entry's values, whatever the
\* fields are called; otherwise it is the tag and, under _value, the whole
\* entry.
C21_Claimed ==
    (pc = "ready" /\ IsOp("get_entries")) =>
        /\ Len(out) = 1 /\ out[1].ok
        /\ Len(out[1].entries) = Len(PresentKeys)
        /\ \A i \in 1..Len(PresentKeys) :
              LET e == out[1].entries[i]
                  v == get(SectionMap(parsed, Req.section), PresentKeys[i])
              IN /\ IsObject(e)
                 /\ get(e.entries, _key) = String(PresentKeys[i])
                 /\ IF Req.fields.some /\ IsObject(v)
                    THEN /\ Keys(e.entries)
                              = {_key} \cup (Range(Req.fields.list) \cap Keys(v.entries))
                         /\ \A f \in Keys(e.entries) \ {_key} :
                               get(e.entries, f) = get(v.entries, f)
                    ELSE e = Object(<<Entry(_key, String(PresentKeys[i])),
                                      Entry(_value, v)>>)

\* C22: a get_entry request is answered by one success envelope; when the
\* named section is an Object that has the key, found is true and entry is
\* the value held under the key; when the section is absent, is no Object
\* or lacks the key, found is false and entry is null.
C22_GetEntry ==
    (pc = "ready" /\ IsOp("get_entry")) =>
        /\ Len(out) = 1 /\ out[1].ok
        /\ DOMAIN out[1] = {"ok", "entry", "found"}
        /\ LET sections == {i \in 1..Len(parsed.gamestate) :
                               /\ parsed.gamestate[i].key = Req.section
                               /\ parsed.gamestate[i].value.t = "obj"}
               held == {e \in UNION {Range(parsed.gamestate[i].value.entries) :
                                        i \in sections} : e.key = Req.key}
           IN IF held = {}
              THEN ~out[1].found /\ out[1].entry = Null
              ELSE out[1].found /\ \A e \in held : out[1].entry = e.value

C22_Witness ==
    /\ pc = "ready" /\ IsOp("get_entry")
    /\ out[1].found
    /\ IsObject(out[1].entry)
    /\ Len(parsed.gamestate) = 3 /\ Len(SectionMap(parsed, country)) = 2

\* a document that holds the three metadata keys and, apart from them,
\* exactly the requested names the gamestate has at its top level, each
\* with the gamestate's value, plus the reserved name meta when it was
\* requested and a meta payload was loaded
ExtractedAsClaimed(doc, gamestate, requested, metaLoaded) ==
    LET metadata == {schema_version, tool_version, game}
        sections == (requested \ {meta}) \cap Keys(gamestate)
    IN /\ IsObject(doc)
       /\ metadata \subseteq Keys(doc.entries)
       /\ Keys(doc.entries) \ metadata
             = (sections \cup IF meta \in requested /\ metaLoaded THEN {meta} ELSE {})
               \ metadata
       /\ \A k \in sections : get(doc.entries, k) = get(gamestate, k)

\* C23: the document of extract_sections, in a session and from the
\* one-shot commands, holds besides the metadata keys exactly the requested
\* names that are top-level gamestate keys, and meta when it was requested
\* and the meta payload was loaded; a name that does not exist is left out
\* and the request still succeeds.
C23_ExtractSections ==
    /\ (cli.command = "serve" /\ pc = "ready" /\ IsOp("extract_sections")) =>
          /\ Len(out) = 1 /\ out[1].ok
          /\ ExtractedAsClaimed(out[1].data, parsed.gamestate, Range(Req.sections),
                                parsed.meta.some)
          /\ (meta \in Range(Req.sections) /\ parsed.meta.some) =>
                get(out[1].data.entries, meta) = Object(parsed.meta.map)
    /\ (cli.command \in {"extract_save", "extract_gamestate"} /\ pc = "done"
           /\ cli.output = "-") =>
          /\ Len(out) = 1
          /\ ExtractedAsClaimed(out[1], OneShotGamestate,
                                Range(section_list(cli.sections)), WantsMeta)

C23_Witness ==
    /\ cli.command = "serve" /\ pc = "ready" /\ IsOp("extract_sections")
    /\ Req.sections = <<country, meta, absent>>
    /\ parsed.meta.some
    /\ Keys(out[1].data.entries) = {schema_version, tool_version, game, country, meta}

\* C24: the countries list of get_country_summaries has one Object per entry
\* of the country section, in the section's order; the i-th holds id, equal
\* to the i-th entry's key whatever fields were requested, and besides id
\* exactly the requested fields the entry has, with the entry's values (only
\* id when the entry is no Object); the list is empty when there is no
\* country section.
C24_Claimed ==
    (pc = "ready" /\ IsOp("get_country_summaries")) =>
        /\ Len(out) = 1 /\ out[1].ok
        /\ IF SectionIsObject(parsed, country)
           THEN LET map == SectionMap(parsed, country)
                IN /\ Len(out[1].countries) = Len(map)
                   /\ \A i \in 1..Len(map) :
                         LET c == out[1].countries[i]
                             held == IF IsObject(map[i].value)
                                     THEN Range(Req.fields) \cap Keys(map[i].value.entries)
                                     ELSE {}
                         IN /\ IsObject(c)
                            /\ get(c.entries, id) = String(map[i].key)
                            /\ Keys(c.entries) = {id} \cup held
                            /\ \A f \in held \ {id} :
                                  get(c.entries, f) = get(map[i].value.entries, f)
           ELSE out[1].countries = <<>>

\* The assignments of the source text, read off its tokens: the nesting
\* depth of token i, the brace that closes the block opened at token i, and
\* the tokens inside lo..hi that assign `nm` at depth d.
Depth(toks, i) ==
    Cardinality({j \in 1..(i - 1) : toks[j].k = "{"})
    - Cardinality({j \in 1..(i - 1) : toks[j].k = "}"})
BlockEnd(toks, i) ==
    LET closers == {j \in (i + 1)..Len(toks) :
                      toks[j].k = "}" /\ Depth(toks, j) = Depth(toks, i) + 1}
    IN CHOOSE j \in closers : \A c \in closers : j <= c
Assigning(toks, lo, hi, nm, d) ==
    {i \in lo..(hi - 2) :
        /\ IsScalar(toks[i]) /\ toks[i].s = nm
        /\ toks[i + 1].k = "="
        /\ Depth(toks, i) = d}

\* the index of the brace that opens the block `nm` is assigned inside
\* lo..hi at depth d, when it is assigned a block there exactly once; 0
\* otherwise
BlockOf(toks, lo, hi, nm, d) ==
    LET at == Assigning(toks, lo, hi, nm, d)
    IN IF Cardinality(at) = 1 /\ toks[(CHOOSE i \in at : TRUE) + 2].k = "{"
       THEN (CHOOSE i \in at : TRUE) + 2
       ELSE 0

\* the tokens assigned to `field`, in source order, in the block of entry
\* `key` of section `section` (empty when there is no such block)
SourceValues(text, section, key, field) ==
    LET toks == tokenize(text)
        s == BlockOf(toks, 1, Len(toks), section, 0)
        k == IF s = 0 THEN 0 ELSE BlockOf(toks, s, BlockEnd(toks, s), key, 1)
        at == IF k = 0 THEN {} ELSE Assigning(toks, k, BlockEnd(toks, k), field, 2)
    IN [n \in 1..Cardinality(at) |->
          toks[(CHOOSE i \in at : Cardinality({j \in at : j < i}) = n - 1) + 2]]

\* C25: when the block of an entry assigns the requested field N >= 1 times,
\* each time a quoted string, the parsed tree holds the last of these values
\* under the field, and get_duplicate_values answers found with the N values
\* in source order.
C25_Claimed ==
    (pc = "ready" /\ IsOp("get_duplicate_values")) =>
        LET vs == SourceValues(parsed.gamestate_bytes, Req.section, Req.key, Req.field)
        IN (vs # <<>> /\ \A n \in 1..Len(vs) : vs[n].k = "quoted") =>
              /\ get(get(SectionMap(parsed, Req.section), Req.key).entries, Req.field)
                    = Scalar(vs[Len(vs)])
              /\ Len(out) = 1 /\ out[1].ok /\ out[1].found
              /\ out[1].values = [n \in 1..Len(vs) |-> Scalar(vs[n]).s]

\* the offsets of the payload at which pat occurs
OccurrencesOf(pat) ==
    {i \in 0..Len(parsed.gamestate_bytes) : MatchAt(parsed.gamestate_bytes, pat, i)}

\* whether the payload holds the header of `section`, an opening brace at
\* or after the first such header, and one of the entry headers of `key`
\* after the first such brace
Located(section, key) ==
    \E h \in OccurrencesOf(<<"\n">> \o section \o <<"=">>) :
        /\ \A g \in OccurrencesOf(<<"\n">> \o section \o <<"=">>) : h <= g
        /\ \E b \in OccurrencesOf(<<"{">>) :
              /\ b >= h
              /\ \A c \in OccurrencesOf(<<"{">>) : c >= h => b <= c
              /\ \E n \in 1..3 : \E e \in OccurrencesOf(entry_patterns(key)[n]) : e > b

\* C26: a get_duplicate_values or get_entry_text request is answered by one
\* success envelope, never an error envelope; found is true exactly when
\* the section header and, after the section's opening brace, an entry
\* header were both located in the payload, and a response with found false
\* carries an empty values list or an empty text.
C26_NotFoundIsNoError ==
    (pc = "ready" /\ (IsOp("get_duplicate_values") \/ IsOp("get_entry_text"))) =>
        /\ Len(out) = 1 /\ out[1].ok /\ ~IsErrorEnvelope(out[1])
        /\ out[1].found <=> Located(Req.section, Req.key)
        /\ ~out[1].found =>
              IF IsOp("get_entry_text") THEN out[1].text = <<>>
              ELSE out[1].values = <<>>

\* a section that is there and a key that is not, and a section that is not
C26_Witness ==
    /\ pc = "ready" /\ IsOp("get_entry_text")
    /\ ~out[1].found /\ out[1].text = <<>>
    /\ OccurrencesOf(<<"\n">> \o Req.section \o <<"=">>) # {}
    /\ SectionIsObject(parsed, country) /\ Len(SectionMap(parsed, country)) = 2

\* the block of entry `key` of `section` in the payload bytes: from the
\* offset of the matched entry header through the first closing brace that
\* brings the brace depth, counted from the header on, back to zero
EntryBlock(section, key) ==
    LET bytes == parsed.gamestate_bytes
        start == entry_start(bytes, key, section_content_start(bytes, section).pos).pos
        rest == SliceFrom(bytes, start)
        closing == {b \in 0..(Len(rest) - 1) :
                      /\ rest[b + 1] = "}"
                      /\ in_entry(rest, b)
                      /\ brace_count(rest, b) = 1}
    IN SliceTo(rest, (CHOOSE b \in closing : \A c \in closing : b <= c) + 1)

\* C27: the text of a get_entry_text response that reports found is the
\* entry's block of the payload, from the matched entry header through the
\* closing brace of the entry, every byte of it carried as the character it
\* stands for.
C27_Claimed ==
    (pc = "ready" /\ IsOp("get_entry_text") /\ out[1].ok /\ out[1].found) =>
        out[1].text = decode_windows1252(EntryBlock(Req.section, Req.key))

\* C28: once the save is loaded no step changes it (gamestate tree, meta
\* tree, raw bytes), and a request that is issued again right after it was
\* answered gets the same response, whatever was asked before it (as long
\* as every line could be written).
C28_ParsedSaveIsReadOnly ==
    [][/\ pc # "start" => parsed' = parsed
       /\ (/\ pc = "ready" /\ pc' = "ready"
           /\ nRead >= 1 /\ nRead' = nRead + 1
           /\ line' = line
           /\ ~stdoutBroken') => out' = out]_vars

\* the second of two requests was answered from a save with all its parts
C28_Witness ==
    /\ pc = "ready" /\ nRead = 2 /\ nResp = 2 /\ ~stdoutBroken
    /\ IsOp("get_entry_text") /\ out[1].found
    /\ parsed.meta.some /\ Len(parsed.gamestate) = 3

\* C29: iter-save that ran to its end has printed one line for every key
\* of the section's top-level mapping, each key on exactly one line with
\* its value; the first line, and no other, also carries schema_version,
\* tool_version, game and section, and every later line has key and value
\* only (nothing is printed when the section is absent or no Object).
C29_IterSaveLines ==
    (cli.command = "iter_save" /\ pc = "done") =>
        IF contains_key(OneShotGamestate, cli.section)
           /\ IsObject(get(OneShotGamestate, cli.section))
        THEN LET map == get(OneShotGamestate, cli.section).entries
             IN /\ Len(out) = Cardinality(Keys(map))
                /\ \A k \in Keys(map) :
                      /\ Cardinality({i \in 1..Len(out) : out[i].key = k}) = 1
                      /\ \A i \in 1..Len(out) :
                            out[i].key = k => out[i].value = get(map, k)
                /\ \A i \in 1..Len(out) :
                      IF i = 1
                      THEN /\ DOMAIN out[i] = {"schema_version", "tool_version", "game",
                                               "section", "key", "value"}
                           /\ out[i].schema_version = SCHEMA_VERSION
                           /\ out[i].tool_version = TOOL_VERSION
                           /\ out[i].game = stellaris
                           /\ out[i].section = cli.section
                      ELSE DOMAIN out[i] = {"key", "value"}
        ELSE out = <<>>

C29_Witness ==
    /\ cli.command = "iter_save" /\ pc = "done"
    /\ cli.section = country
    /\ Len(out) >= 3
    /\ "section" \in DOMAIN out[1]
    /\ DOMAIN out[3] = {"key", "value"}

-----------------------------------------------------------------------------
(* Loading a payload given as text: ParsedSave::load applied to the bytes  *)
(* of cli.data, as the tests of edge_cases.rs apply the parser to their    *)
(* inputs.  The payloads are small documents written in several layouts.   *)

MaxAssignments == 2

\* a layout: what stands between two tokens, and what around "="
Condensed == [sep |-> <<>>, eq |-> <<>>]
Layouts ==
    {Condensed,
     [sep |-> <<"\n", " ", " ">>, eq |-> <<>>],
     [sep |-> <<" ">>, eq |-> <<" ">>]}

RECURSIVE Layout(_, _)
\* the text of the assignments es (of a block of values when no entry has
\* a key) in layout w; strings are quoted
Layout(es, w) ==
    LET value(v) ==
            CASE v.t = "str" -> <<"\"">> \o v.s \o <<"\"">>
              [] v.t = "obj" -> <<"{">> \o w.sep \o Layout(v.entries, w) \o <<"}">>
              [] v.t = "arr" ->
                    <<"{">> \o w.sep
                    \o Flatten([i \in 1..Len(v.items) |->
                                  <<"\"">> \o v.items[i].s \o <<"\"">> \o w.sep])
                    \o <<"}">>
    IN Flatten([i \in 1..Len(es) |->
                  es[i].key \o w.eq \o <<"=">> \o w.eq \o value(es[i].value) \o w.sep])

QuotedValues == {String(<<"1">>), String(<<"2">>)}
Blocks ==
    {Object(es) : es \in UNION {[1..n -> {Entry(k, v) : k \in {<<"b">>, <<"c">>},
                                                        v \in QuotedValues}] :
                                  n \in 1..MaxAssignments}}
    \cup {Array(<<String(<<"1">>), String(<<"2">>)>>)}
Documents ==
    {<<Entry(<<"a">>, v)>> : v \in QuotedValues \cup Blocks}
    \cup {<<Entry(<<"a">>, v), Entry(<<"c">>, String(<<"3">>))>> : v \in Blocks}
    \cup {<<Entry(<<"a">>, Object(<<Entry(<<"b">>, v), Entry(<<"c">>, String(<<"3">>))>>))>> :
            v \in {Object(<<Entry(<<"a">>, String(<<"1">>)),
                            Entry(<<"b">>, String(<<"2">>))>>),
                   Array(<<String(<<"1">>), String(<<"2">>)>>)}}

\* a block that is never closed
Unbalanced == <<"a", "=", "{", "b", "=", "\"", "1", "\"">>

\* byte values of every kind: control bytes, whitespace, a letter, a digit,
\* the bytes of the grammar, and bytes >= 0x80 (0x80-0x9F and 0xA0-0xFF)
ByteValues ==
    {"x00", "x15", "\t", "\n", " ", "a", "0", "=", "{", "}", "\"", "\\",
     "x80", "x92", "xE9", "xFF"}

\* test={name="..."} as the tests of output.rs write it
QuotedText(content) ==
    <<"t", "e", "s", "t", "=", "{", "n", "a", "m", "e", "=", "\"">>
    \o content \o <<"\"", "}">>

\* a byte as the whole of a quoted string, and between two letters
Embedded(b) == {<<b>>, <<"a", b, "c">>}

EncodingPayloads == {QuotedText(c) : c \in UNION {Embedded(b) : b \in ByteValues}}

Payloads ==
    {Layout(d, w) : d \in Documents, w \in Layouts} \cup {Unbalanced}
    \cup EncodingPayloads

FormatInit ==
    /\ pc = "start"
    /\ cli \in {[command |-> "load", data |-> t] : t \in Payloads}
    /\ parsed = NoSave
    /\ line = NoLine
    /\ out = <<>>
    /\ nRead = 0
    /\ nReq = 0
    /\ nResp = 0
    /\ stdoutBroken = FALSE
    /\ exit_code = Running
    /\ touched = {}
    /\ stderr = NoStderr

\* LoadPayload with the parser that takes its input for UTF-8
\* (from_utf8_slice) in place of from_windows1252_slice
LoadPayload_Utf8 ==
    /\ pc = "start"
    /\ LET r == parse(cli.data)
       IN IF r.ok /\ \A i \in 1..Len(cli.data) : cli.data[i] \notin HighBytes
          THEN /\ parsed' = [gamestate |-> r.map, gamestate_bytes |-> cli.data,
                             meta |-> NoMeta]
               /\ pc' = "ready"
               /\ UNCHANGED exit_code
          ELSE /\ pc' = "exited"
               /\ exit_code' = exit_code_of("ParseError")
               /\ UNCHANGED parsed
    /\ UNCHANGED <<line, out, nRead, nReq, nResp, stdoutBroken, cli, touched, stderr>>

\* ParsedSave::load on the payload: the tree and the bytes are retained, or
\* the parse error ends the process
LoadPayload ==
    /\ pc = "start"
    /\ LET r == parse(cli.data)
       IN IF r.ok
          THEN /\ parsed' = [gamestate |-> r.map, gamestate_bytes |-> cli.data,
                             meta |-> NoMeta]
               /\ pc' = "ready"
               /\ UNCHANGED exit_code
          ELSE /\ pc' = "exited"
               /\ exit_code' = exit_code_of("ParseError")
               /\ UNCHANGED parsed
    /\ UNCHANGED <<line, out, nRead, nReq, nResp, stdoutBroken, cli, touched, stderr>>

Format == FormatInit /\ [][LoadPayload]_vars

\* C30: a document written with nothing between its tokens but the quotes
\* and braces themselves parses, and to the same tree as the same document
\* written with whitespace between its tokens.
C30_CondensedSyntax ==
    (cli.command = "load" /\ pc # "start") =>
        \A d \in Documents :
            cli.data = Layout(d, Condensed) =>
                /\ pc = "ready"
                /\ \A w \in Layouts :
                      parse(Layout(d, w)) = [ok |-> TRUE, map |-> parsed.gamestate]

\* a={b="1"c="2"} was loaded
C30_Witness ==
    /\ cli.command = "load" /\ pc = "ready"
    /\ cli.data = <<"a", "=", "{", "b", "=", "\"", "1", "\"",
                    "c", "=", "\"", "2", "\"", "}">>
    /\ parsed.gamestate
          = <<Entry(<<"a">>, Object(<<Entry(<<"b">>, String(<<"1">>)),
                                      Entry(<<"c">>, String(<<"2">>))>>))>>

\* the string that test={name="..."} was loaded into
DecodedName == get(get(parsed.gamestate, <<"t", "e", "s", "t">>).entries, name).s

\* C31 as claimed: whatever byte value stands inside the quoted string, the
\* payload loads and the string decodes to a non-empty string.
C31_Claimed ==
    (cli.command = "load" /\ pc # "start") =>
        \A b \in ByteValues : \A c \in Embedded(b) :
            cli.data = QuotedText(c) => pc = "ready" /\ DecodedName # <<>>

\* C31: whatever byte value other than the double quote (0x22) and the
\* backslash (0x5C) stands inside a quoted string, the payload loads and the
\* string decodes to a non-empty string.
C31_EncodingTotality ==
    (cli.command = "load" /\ pc # "start") =>
        \A b \in ByteValues \ {"\"", "\\"} : \A c \in Embedded(b) :
            cli.data = QuotedText(c) => pc = "ready" /\ DecodedName # <<>>

\* test={name="\x92"} was loaded and its string is U+2019
C31_Witness ==
    /\ cli.command = "load" /\ pc = "ready"
    /\ cli.data = QuotedText(<<"x92">>)
    /\ DecodedName = <<"U+2019">>

-----------------------------------------------------------------------------
C33_Claimed ==
    (pc = "ready" /\ IsOp("get_entry_text") /\ out[1].ok /\ out[1].found) =>
        LET text == out[1].text
        IN /\ \E n \in 1..3 : MatchAt(text, entry_patterns(Req.key)[n], 0)
           /\ text[Len(text)] = "}"
           /\ in_entry(text, Len(text)) /\ brace_count(text, Len(text)) = 0
           /\ \A b \in 1..(Len(text) - 1) :
                  in_entry(text, b) => brace_count(text, b) > 0

\* the offset at which the raw-text lookup of (section, key) is to start
\* the entry in content: the first occurrence, at or after the offset that
\* follows the section's opening brace, of the first of the three entry
\* headers that occurs there at all; -1 when there is none
PriorityStart(content, section, key) ==
    LET occ(pat) == {i \in 0..Len(content) : MatchAt(content, pat, i)}
        headers == occ(<<"\n">> \o section \o <<"=">>)
        h == CHOOSE i \in headers : \A j \in headers : i <= j
        braces == {i \in occ(<<"{">>) : i >= h}
        b == CHOOSE i \in braces : \A j \in braces : i <= j
        after(n) == {i \in occ(entry_patterns(key)[n]) : i > b}
        first(n) == CHOOSE i \in after(n) : \A j \in after(n) : i <= j
    IN IF headers = {} \/ braces = {} THEN 0 - 1
       ELSE IF after(1) # {} THEN first(1)
       ELSE IF after(2) # {} THEN first(2)
       ELSE IF after(3) # {} THEN first(3)
       ELSE 0 - 1

\* C34: the entry a raw-text lookup reports begins at the first occurrence,
\* after the section's opening brace, of the highest-priority entry header
\* (key=, newline, tab, { before key={ before key =) that occurs there at
\* all, also when a header of lower priority occurs earlier: the text of
\* get_entry_text is read from that offset on, and the values of
\* get_duplicate_values are read in a block that begins there.
C34_EntryPatternPriority ==
    (pc = "ready" /\ (IsOp("get_entry_text") \/ IsOp("get_duplicate_values"))
     /\ out[1].ok /\ out[1].found) =>
        LET content == from_utf8_lossy(parsed.gamestate_bytes)
            start == PriorityStart(content, Req.section, Req.key)
            rest == SliceFrom(content, start)
        IN /\ start >= 0
           /\ IF IsOp("get_entry_text")
              THEN /\ out[1].text # <<>>
                   /\ out[1].text = SliceTo(rest, Len(out[1].text))
              ELSE \E n \in 1..Len(rest) :
                      out[1].values
                         = field_values(SliceTo(rest, n), Req.field \o <<"=", "\"">>)

\* entry 0 of country was asked for in the save that writes it as 0={ in
\* the country section and as 0=, newline, tab, { in the section after it,
\* and the later one was returned
C34_Witness ==
    /\ pc = "ready" /\ IsOp("get_entry_text") /\ Req.key = Digit(0)
    /\ parsed = MixedLayoutSave
    /\ out[1].found
    /\ MatchAt(out[1].text, entry_patterns(Digit(0))[1], 0)
    /\ find(parsed.gamestate_bytes, entry_patterns(Digit(0))[2]).some
    /\ find(parsed.gamestate_bytes, entry_patterns(Digit(0))[2]).pos
          < PriorityStart(parsed.gamestate_bytes, country, Digit(0))

\* the block in which get_duplicate_values scans for the field: the lossy
\* text from the entry header to the end the brace loop computes
ScannedBlock(section, key) ==
    LET content == from_utf8_lossy(parsed.gamestate_bytes)
        start == entry_start(content, key, section_content_start(content, section).pos)
        rest == SliceFrom(content, start.pos)
    IN SliceTo(rest, entry_end(rest))

RECURSIVE ValuesFrom(_, _, _)
\* the strings a left-to-right scan of block from offset pos on collects:
\* at the next occurrence of pat the text up to the next double quote, and
\* so on from the offset after that quote; nothing more once an occurrence
\* has no double quote after it
ValuesFrom(block, pat, pos) ==
    LET occs == {i \in pos..Len(block) : MatchAt(block, pat, i)}
        p == CHOOSE i \in occs : \A j \in occs : i <= j
        quotes == {i \in (p + Len(pat))..(Len(block) - 1) : block[i + 1] = "\""}
        q == CHOOSE i \in quotes : \A j \in quotes : i <= j
    IN IF occs = {} \/ quotes = {} THEN <<>>
       ELSE <<SubSeq(block, p + Len(pat) + 1, q)>> \o ValuesFrom(block, pat, q + 1)

\* C35: the values of a get_duplicate_values response that reports found
\* are, in source order, the strings that follow the occurrences of
\* field=" in the entry block, each up to the next double quote, the scan
\* going on after that quote and ending at an occurrence with no double
\* quote after it.
C35_FieldValues ==
    (pc = "ready" /\ IsOp("get_duplicate_values") /\ out[1].ok /\ out[1].found) =>
        out[1].values
           = ValuesFrom(ScannedBlock(Req.section, Req.key), Req.field \o <<"=", "\"">>, 0)

\* two values were returned from a block that assigns the field three
\* times, the third time with no closing quote inside the block
C35_Witness ==
    /\ pc = "ready" /\ IsOp("get_duplicate_values") /\ out[1].found
    /\ out[1].values = << <<"f">>, <<"e">> >>
    /\ Cardinality({i \in 0..Len(ScannedBlock(Req.section, Req.key)) :
                       MatchAt(ScannedBlock(Req.section, Req.key),
                               Req.field \o <<"=", "\"">>, i)}) = 3

\* the offset just after the first opening brace that follows the first
\* occurrence of newline, section, "=" in content
OffsetAfterBrace(content, section) ==
    LET occ(pat) == {i \in 0..Len(content) : MatchAt(content, pat, i)}
        headers == occ(<<"\n">> \o section \o <<"=">>)
        h == CHOOSE i \in headers : \A j \in headers : i <= j
        braces == {i \in occ(<<"{">>) : i >= h}
    IN (CHOOSE i \in braces : \A j \in braces : i <= j) + 1

\* C36: in the answer to a multi request every get_duplicate_values result
\* is the values and the found flag the same request has on its own, where
\* no offset is cached; the offsets the batch has cached when it ends are,
\* for each section, the offset just after the first opening brace that
\* follows the section's first header; and this holds for every batch of a
\* session, whatever batches were answered before it.
C36_CacheIsTransparent ==
    (pc = "ready" /\ IsOp("multi")) =>
        /\ \A i \in 1..Len(Req.ops) :
              Req.ops[i].op = "get_duplicate_values" =>
                 LET alone == handle_get_duplicate_values(
                                 parsed.gamestate_bytes, Req.ops[i].section,
                                 Req.ops[i].key, Req.ops[i].field)
                 IN out[1].results[i] = [values |-> alone.values, found |-> alone.found]
        /\ LET cached == handle_multi_op(parsed, Req.ops).cache
           IN \A n \in 1..Len(cached) :
                 /\ cached[n].value
                      = OffsetAfterBrace(from_utf8_lossy(parsed.gamestate_bytes),
                                         cached[n].key)
                 /\ \E i \in 1..Len(Req.ops) :
                       /\ Req.ops[i].op = "get_duplicate_values"
                       /\ Req.ops[i].section = cached[n].key

\* the second batch of a session looked two sections up, one of them twice,
\* and found the entry in one section and not in the other
C36_Witness ==
    /\ pc = "ready" /\ IsOp("multi") /\ nRead = 2
    /\ Len(Req.ops) = 4
    /\ \A i \in 1..4 : Req.ops[i].op = "get_duplicate_values"
    /\ Len(handle_multi_op(parsed, Req.ops).cache) = 2
    /\ Len(out[1].results) = 4
    /\ out[1].results[1].found /\ out[1].results[3].found
    /\ ~out[1].results[2].found /\ ~out[1].results[4].found

\* C37: when a request of a kind a batch may hold has been answered and the
\* next line is a multi request that holds the same operation with the same
\* arguments, the result at that place of the results list has exactly the
\* fields of the earlier response other than ok, with the same values.
C37_MultiEqualsStandalone ==
    [][(/\ pc = "ready" /\ pc' = "ready"
        /\ nRead' = nRead + 1
        /\ Parsed /\ Req.op \in MultiOp
        /\ Len(out) = 1 /\ out[1].ok
        /\ from_str(line').ok /\ from_str(line').req.op = "multi")
       => \A i \in 1..Len(from_str(line').req.ops) :
             from_str(line').req.ops[i] = Req =>
                /\ DOMAIN out'[1].results[i] = DOMAIN out[1] \ {"ok"}
                /\ \A f \in DOMAIN out'[1].results[i] :
                      out'[1].results[i][f] = out[1][f]]_vars

\* a batch with one operation of every kind was answered right after a
\* get_country_summaries request that is one of its operations
C37_Witness ==
    /\ pc = "ready" /\ nRead = 2 /\ nResp = 2
    /\ IsOp("multi") /\ Len(Req.ops) = Len(MixedOps)
    /\ {Req.ops[i].op : i \in 1..Len(Req.ops)} = MultiOp
    /\ Len(out[1].results) = Len(MixedOps)
    /\ out[1].results[6].countries # <<>>

\* the offset of the closing brace that matches the opening brace before
\* offset open of content (the length of content when it is never closed)
ClosingBrace(content, open) ==
    LET depth(b) == Cardinality({c \in open..(b - 1) : content[c + 1] = "{"})
                    - Cardinality({c \in open..(b - 1) : content[c + 1] = "}"})
        closing == {b \in open..(Len(content) - 1) :
                       content[b + 1] = "}" /\ depth(b) = 0}
    IN IF closing = {} THEN Len(content)
       ELSE CHOOSE b \in closing : \A c \in closing : b <= c

\* C38 as claimed: the text of a get_entry_text response that reports found
\* lies inside the block of the named section, between the section's
\* opening brace and the closing brace that matches it.
C38_Claimed ==
    (pc = "ready" /\ IsOp("get_entry_text") /\ out[1].ok /\ out[1].found) =>
        LET content == from_utf8_lossy(parsed.gamestate_bytes)
            open == OffsetAfterBrace(content, Req.section)
            close == ClosingBrace(content, open)
        IN \E i \in (open - 1)..close :
              /\ MatchAt(content, out[1].text, i)
              /\ i + Len(out[1].text) <= close

\* bytes below 0x20, which JSON allows in a string only when escaped
IsControl(c) == c \in {"x00", "x15", "\t", "\n", "\r"}

\* the character a JSON reader takes backslash, c for
JsonEscape(c) ==
    CASE c = "b" -> "x08"
      [] c = "f" -> "x0C"
      [] c = "n" -> "\n"
      [] c = "r" -> "\r"
      [] c = "t" -> "\t"
      [] OTHER -> c

RECURSIVE json_string(_)
\* what a JSON reader makes of the text written between two double quotes:
\* the string it decodes to, or no string when the text holds a double
\* quote or a control byte that is not escaped, or a backslash that begins
\* no escape (the \u escapes are left out)
json_string(text) ==
    IF text = <<>> THEN [ok |-> TRUE, s |-> <<>>]
    ELSE IF Head(text) = "\"" \/ IsControl(Head(text)) THEN [ok |-> FALSE, s |-> <<>>]
    ELSE IF Head(text) = "\\"
         THEN IF Len(text) >= 2 /\ text[2] \in {"\"", "\\", "/", "b", "f", "n", "r", "t"}
              THEN LET rest == json_string(SubSeq(text, 3, Len(text)))
                   IN [ok |-> rest.ok, s |-> <<JsonEscape(text[2])>> \o rest.s]
              ELSE [ok |-> FALSE, s |-> <<>>]
    ELSE LET rest == json_string(Tail(text))
         IN [ok |-> rest.ok, s |-> <<Head(text)>> \o rest.s]

\* the keys the entry and batch lines of out carry, as they were written
\* between the quotes, in the order written
StreamedKeys ==
    Flatten([i \in 1..Len(out) |->
               IF IsStreamEntry(out[i]) THEN <<out[i].entry.key>>
               ELSE IF IsStreamBatch(out[i])
                    THEN [j \in 1..Len(out[i].entries) |-> out[i].entries[j].key]
               ELSE <<>>])

\* C39 as claimed: every entry and batch line of an iter_section stream is
\* well-formed JSON, and the keys a reader decodes from the lines of a
\* completed stream are the keys of the section's entries, whatever
\* characters the keys hold.
C39_Claimed ==
    IsOp("iter_section") =>
        /\ \A n \in 1..Len(StreamedKeys) : json_string(StreamedKeys[n]).ok
        /\ (pc = "ready" /\ SectionIsObject(parsed, Req.section)) =>
              LET map == SectionMap(parsed, Req.section)
              IN /\ Len(StreamedKeys) = Len(map)
                 /\ \A n \in 1..Len(map) :
                       json_string(StreamedKeys[n]).s = map[n].key

\* C40: the step that reads an empty line writes nothing, begins no
\* response and no error envelope, and leaves the session in the request
\* loop with its save, its exit code and its stdout as they were.
C40_EmptyLineIsSkipped ==
    [][(pc = "ready" /\ nRead' = nRead + 1 /\ line' = EmptyLine)
       => /\ out' = <<>>
          /\ nResp' = nResp /\ nReq' = nReq
          /\ pc' = "ready"
          /\ exit_code' = exit_code /\ stdoutBroken' = stdoutBroken
          /\ parsed' = parsed /\ stderr' = stderr]_vars

\* an empty line was read after a request that was answered, and the
\* session waits for the next line
C40_Witness ==
    /\ pc = "ready" /\ line = EmptyLine
    /\ nRead = 2 /\ nReq = 1 /\ nResp = 1
    /\ out = <<>> /\ ~stdoutBroken /\ exit_code = Running

====
